---- MODULE Spec2Model ----
(***************************************************************************)
(* Proactive routing controller for NSFNET (nsfnet-sdn-backup/ryu_app.py). *)
(*                                                                         *)
(* The controller (class ProactiveRouting) keeps a graph of switches, a    *)
(* directional port map and per-switch port sets, and on every trigger     *)
(* rebuilds the graph from the topology provider, deduces host ports,      *)
(* wipes every registered switch and installs destination rules.  The      *)
(* switches' flow tables, the topology provider and the physical wiring    *)
(* are the environment.                                                    *)
(*                                                                         *)
(* Edge weights are floats in the code (1.0 or 1.0/bw).  They are kept     *)
(* here as exact rationals scaled by WeightScale, the least common         *)
(* multiple of all bandwidths of the table.  Float rounding can only       *)
(* separate path sums that are exactly equal as rationals, so the path the *)
(* library returns is always one of the exact minimum-weight paths; which  *)
(* one is a choice of the library (spChoice below).                        *)
(***************************************************************************)
EXTENDS Integers, Sequences, FiniteSets, TLC

VARIABLES
    wiring,          \* environment: the physical network the controller is attached to
    topoSwitches,    \* environment: what topo_api.get_all_switch returns
    topoLinks,       \* environment: what topo_api.get_all_link returns
    topoDirty,       \* environment: the provider's changes without an event since the last _build_graph
    flows,           \* environment: the flow table of every switch
    mode,            \* self.mode
    G,               \* self.G: [nodes, edges], edges keyed by undirected_key
    adj,             \* self.adj: <<u, v>> -> out port of u towards v
    datapaths,       \* self.datapaths (the registered dpids)
    sw_all_ports,    \* self.sw_all_ports
    sw_link_ports,   \* self.sw_link_ports
    host_port,       \* self.host_port
    spChoice,        \* the library's shortest paths on the current self.G, per mode
    sent,            \* the messages the last handler sent, in order
    last,            \* the last handler that ran
    port_stats,      \* self.port_stats: dpid -> port -> the current sample
    port_stats_prev, \* self.port_stats_prev: dpid -> port -> the sample before it
    stats_timestamp, \* self.stats_timestamp: dpid -> time of the last reply
    flow_stats,      \* self.flow_stats: dpid -> the entries of the last rule-counter reply
    pending,         \* environment: the counter requests the switches have not answered
    heard,           \* history: the port-counter replies handled so far, oldest first
    running,         \* the rebuilds in progress, by thread, and the builds finished so far
    probe            \* a request being served (or a function run on its own) and its result

vars == <<wiring, topoSwitches, topoLinks, topoDirty, flows, mode, G, adj, datapaths,
          sw_all_ports, sw_link_ports, host_port, spChoice, sent, last,
          port_stats, port_stats_prev, stats_timestamp, flow_stats, pending, heard, running,
          probe>>

\* The routing side and its environment
routing ==
    <<wiring, topoSwitches, topoLinks, topoDirty, flows, mode, G, adj, datapaths,
      sw_all_ports, sw_link_ports, host_port, spChoice, sent, last>>

\* The statistics side
stats == <<port_stats, port_stats_prev, stats_timestamp, flow_stats, pending, heard>>

\* Everything but the request being served
controller == <<routing, stats, running>>

-----------------------------------------------------------------------------
(* Program constants *)

NUM_HOSTS == 14

default_bw == 10

\* Mutation: destination rules above the discovery rule.
PRIO_DEST_high == 500 + 100

PRIO_DEST == 100

PRIO_LLDP == 500

PRIO_MISS == 0

ETH_IP == 2048

ETH_ARP == 2054

ETH_LLDP == 35020

ETH_ANY == 0

\* Port numbers are unsigned 32-bit in OpenFlow.  They are kept here in 32 bits
\* too, a reserved port 0xffffffXX as the negative number of the same bit
\* pattern, and compared as unsigned numbers (PortLess).
OFPP_CONTROLLER == -3

OFPP_MAX == -256

OFPP_LOCAL == -2

PortLess(a, b) == IF (a < 0) = (b < 0) THEN a < b ELSE b < 0

NO_OUTPUT == 0

FALLBACK_PORT == 1

WeightScale == 12600

Modes == {"hops", "distrak"}

ip_of(i) == <<10, 0, 0, i>>

undirected_key(a, b) == IF a < b THEN <<a, b>> ELSE <<b, a>>

link_bw ==
    ( <<1,2>> :> 50 @@ <<1,5>> :> 30 @@ <<2,3>> :> 20 @@ <<2,6>> :> 40 @@
      <<3,4>> :> 25 @@ <<3,7>> :> 35 @@ <<4,8>> :> 45 @@ <<5,6>> :> 10 @@
      <<5,9>> :> 20 @@ <<6,7>> :> 50 @@ <<6,10>> :> 8 @@ <<7,11>> :> 40 @@
      <<8,12>> :> 30 @@ <<9,10>> :> 40 @@ <<9,13>> :> 35 @@ <<10,11>> :> 20 @@
      <<10,14>> :> 30 @@ <<11,12>> :> 45 @@ <<12,14>> :> 25 @@ <<13,14>> :> 15 @@
      <<8,11>> :> 20 )

\* Mutation: the table is not consulted, every link has the default capacity.
bw_of_nolookup(u, v) == default_bw

\* self.link_bw.get(undirected_key(u, v), self.default_bw)
bw_of(u, v) ==
    IF undirected_key(u, v) \in DOMAIN link_bw THEN link_bw[undirected_key(u, v)]
    ELSE default_bw

\* Mutation: the inverse-bandwidth weight is given in hop-count mode and the
\* unit weight in inverse-bandwidth mode.
edge_weight_swapped(bw, m) == IF m = "distrak" THEN WeightScale ELSE WeightScale \div bw

\* Mutation: the unit weight in both modes.
edge_weight_unit(bw, m) == WeightScale

\* weight = 1.0 / bw if self.mode == 'distrak' else 1.0   (scaled by WeightScale)
edge_weight(bw, m) == IF m = "distrak" THEN WeightScale \div bw ELSE WeightScale

-----------------------------------------------------------------------------
(* The environment: physical wirings the controller is run against *)

Port(d, p) == [dpid |-> d, port_no |-> p]

Link(sd, sp, dd, dp) == [src |-> Port(sd, sp), dst |-> Port(dd, dp)]

\* s1, s2, s5 of NSFNET with an extra cable s2-s5 that is not in the bandwidth
\* table: the direct link 2-5 (default 10 Mbps) is the hop-count optimum, the
\* detour over s1 (50 and 30 Mbps) the inverse-bandwidth optimum.  The host of
\* s5 is on port 3.  s1 may go down and the provider may lose the link 2-5.
WiringCorner ==
    [ sw    |-> {1, 2, 5},
      ports |-> (1 :> {1, 2, 3} @@ 2 :> {1, 2, 3} @@ 5 :> {1, 2, 3}),
      links |-> { Link(1, 2, 2, 2), Link(5, 1, 1, 3), Link(2, 3, 5, 2) },
      flaky |-> {1},
      cuts  |-> { Link(2, 3, 5, 2) } ]

\* s8, s10, s11 of NSFNET with an extra cable s8-s10 (default 10 Mbps): in
\* inverse-bandwidth mode the direct link ties with the detour over s11
\* (1/10 = 1/20 + 1/20).  The provider sees the cable s8-s11 in both directions.
WiringTie ==
    [ sw    |-> {8, 10, 11},
      ports |-> (8 :> {1, 2, 3} @@ 10 :> {1, 2, 3} @@ 11 :> {1, 2, 3}),
      links |-> { Link(8, 2, 11, 2), Link(11, 2, 8, 2), Link(10, 2, 11, 3), Link(8, 3, 10, 3) },
      flaky |-> {},
      cuts  |-> {} ]

Wirings == {WiringCorner, WiringTie}

Switches == wiring.sw

EmptyFn == [x \in {} |-> x]

Range(f) == {f[x] : x \in DOMAIN f}

Min(S) == CHOOSE x \in S : \A y \in S : x <= y

\* S in ascending order (the order the model gives to dict and node iteration)
RECURSIVE SortedSeq(_)
SortedSeq(S) == IF S = {} THEN <<>> ELSE <<Min(S)>> \o SortedSeq(S \ {Min(S)})

-----------------------------------------------------------------------------
(* _build_graph *)

Get(f, k, dflt) == IF k \in DOMAIN f THEN f[k] ELSE dflt

LinkEnds(lks) == {l.src.dpid : l \in lks} \cup {l.dst.dpid : l \in lks}

\* The ports the loop over the links writes to self.adj[(u, v)].  The loop
\* keeps the last one written; in every wiring above the two directions of a
\* cable agree on the ports, so the set holds one port and the order of the
\* links does not matter.
AdjPorts(lks, u, v) ==
    {l.src.port_no : l \in {x \in lks : x.src.dpid = u /\ x.dst.dpid = v}} \cup
    {l.dst.port_no : l \in {x \in lks : x.src.dpid = v /\ x.dst.dpid = u}}

\* Mutation: only the direction a link was reported in gets an entry.
AdjOf_forward(lks) ==
    [k \in {<<l.src.dpid, l.dst.dpid>> : l \in lks} |->
        CHOOSE p \in {l.src.port_no : l \in {x \in lks : x.src.dpid = k[1] /\ x.dst.dpid = k[2]}} : TRUE]

AdjOf(lks) ==
    [k \in {<<l.src.dpid, l.dst.dpid>> : l \in lks} \cup {<<l.dst.dpid, l.src.dpid>> : l \in lks}
        |-> CHOOSE p \in AdjPorts(lks, k[1], k[2]) : TRUE]

LinkPortsOf(lks) ==
    [s \in LinkEnds(lks) |->
        {l.src.port_no : l \in {x \in lks : x.src.dpid = s}} \cup
        {l.dst.port_no : l \in {x \in lks : x.dst.dpid = s}}]

EdgeAttr(u, v, m) == [bw |-> bw_of(u, v), weight |-> edge_weight(bw_of(u, v), m)]

\* G.add_edge adds its endpoints as nodes when they are missing.
GraphOf(sws, lks, m) ==
    [ nodes |-> sws \cup LinkEnds(lks),
      edges |-> [k \in {undirected_key(l.src.dpid, l.dst.dpid) : l \in lks}
                    |-> EdgeAttr(k[1], k[2], m)] ]

\* f overwritten by g where g is defined
Overlay(f, g) == [k \in DOMAIN f \cup DOMAIN g |-> IF k \in DOMAIN g THEN g[k] ELSE f[k]]

\* Mutation: the three clear() calls are missing, the snapshot is added to
\* what the previous build left.
build_graph_merge(sws, lks, m) ==
    [ G |-> [ nodes |-> G.nodes \cup GraphOf(sws, lks, m).nodes,
              edges |-> Overlay(G.edges, GraphOf(sws, lks, m).edges) ],
      adj |-> Overlay(adj, AdjOf(lks)),
      sw_link_ports |-> Overlay(sw_link_ports, LinkPortsOf(lks)) ]

\* self.G.clear(), self.adj.clear(), self.sw_link_ports.clear(), then the
\* loops over the switches and the links of the snapshot
build_graph(sws, lks, m) ==
    [ G |-> GraphOf(sws, lks, m), adj |-> AdjOf(lks), sw_link_ports |-> LinkPortsOf(lks) ]

-----------------------------------------------------------------------------
(* nx.shortest_path(self.G, source=u, target=d, weight='weight') *)

Neighbors(g, u) == {v \in g.nodes : v # u /\ undirected_key(u, v) \in DOMAIN g.edges}

RECURSIVE PathsFrom(_, _, _)
PathsFrom(g, p, d) ==
    IF p[Len(p)] = d THEN {p}
    ELSE UNION {PathsFrom(g, Append(p, v), d) : v \in Neighbors(g, p[Len(p)]) \ Range(p)}

SimplePaths(g, u, d) == PathsFrom(g, <<u>>, d)

RECURSIVE PathWeight(_, _)
PathWeight(g, p) ==
    IF Len(p) < 2 THEN 0
    ELSE g.edges[undirected_key(p[1], p[2])].weight + PathWeight(g, Tail(p))

\* Every path the library may return: the minimum-weight ones.  None: NetworkXNoPath.
MinPaths(g, u, d) ==
    LET all == SimplePaths(g, u, d)
    IN  {p \in all : \A q \in all : PathWeight(g, p) <= PathWeight(g, q)}

ReachPairs(g) == {k \in g.nodes \X g.nodes : k[1] # k[2] /\ SimplePaths(g, k[1], k[2]) # {}}

\* The library is a function of the graph: all the ways it may break ties.
RECURSIVE ChoicesOver(_, _)
ChoicesOver(g, P) ==
    IF P = {} THEN {EmptyFn}
    ELSE LET k == CHOOSE x \in P : TRUE
         IN  {f @@ (k :> q) : f \in ChoicesOver(g, P \ {k}), q \in MinPaths(g, k[1], k[2])}

TieBreaks(g) == ChoicesOver(g, ReachPairs(g))

-----------------------------------------------------------------------------
(* _deduce_host_ports *)

Max(S) == CHOOSE x \in S : \A y \in S : x >= y

\* Mutation: the largest of several candidates is taken.
HostPortOf_max(allp, linkp) ==
    LET cand == allp \ linkp
    IN  IF Cardinality(cand) = 1 THEN CHOOSE p \in cand : TRUE
        ELSE IF Cardinality(cand) > 1 THEN Max(cand)
        ELSE FALLBACK_PORT

HostPortOf(allp, linkp) ==
    LET cand == allp \ linkp
    IN  IF Cardinality(cand) = 1 THEN CHOOSE p \in cand : TRUE
        ELSE IF Cardinality(cand) > 1 THEN Min(cand)
        ELSE FALLBACK_PORT

deduce_host_ports(g, allports, linkports) ==
    [dpid \in g.nodes |-> HostPortOf(Get(allports, dpid, {}), Get(linkports, dpid, {}))]

-----------------------------------------------------------------------------
(* Messages to the switches and their effect on a flow table *)

Match(eth, dst) == [eth_type |-> eth, dst |-> dst]

Rule(prio, match, out) == [priority |-> prio, match |-> match, out |-> out]

NoRule == Rule(0, Match(ETH_ANY, <<>>), NO_OUTPUT)

LldpRule == Rule(PRIO_LLDP, Match(ETH_LLDP, <<>>), OFPP_CONTROLLER)

MissRule == Rule(PRIO_MISS, Match(ETH_ANY, <<>>), NO_OUTPUT)

BaseRules == {LldpRule, MissRule}

FlowAdd(dpid, r) == [to |-> dpid, kind |-> "add", rule |-> r]

FlowDeleteAll(dpid) == [to |-> dpid, kind |-> "delete", rule |-> NoRule]

Request(dpid, what) == [to |-> dpid, kind |-> what, rule |-> NoRule]

\* OFPFC_ADD replaces an entry of the same match and priority; OFPFC_DELETE
\* with an empty match removes every entry.
ApplyMsg(table, msg) ==
    IF msg.kind = "delete" THEN {}
    ELSE IF msg.kind = "add"
         THEN {r \in table : ~(r.priority = msg.rule.priority /\ r.match = msg.rule.match)}
              \cup {msg.rule}
         ELSE table

Deliver(fl, msgs) ==
    LET f[i \in 0..Len(msgs)] ==
            IF i = 0 THEN fl
            ELSE [f[i-1] EXCEPT ![msgs[i].to] = ApplyMsg(@, msgs[i])]
    IN  f[Len(msgs)]

-----------------------------------------------------------------------------
(* _install_base_rules, _clear_all_flows, _install_all_destinations *)

install_base_rules(dpid) == <<FlowAdd(dpid, LldpRule), FlowAdd(dpid, MissRule)>>

clear_all_flows(dps) ==
    LET s == SortedSeq(dps)
        f[i \in 0..Len(s)] ==
            IF i = 0 THEN <<>>
            ELSE f[i-1] \o <<FlowDeleteAll(s[i])>> \o install_base_rules(s[i])
    IN  f[Len(s)]

\* Mutation: only the IPv4 rule is sent.
dest_rules_ip_only(u, dst_sw, out_port) ==
    << FlowAdd(u, Rule(PRIO_DEST, Match(ETH_IP, ip_of(dst_sw)), out_port)) >>

\* mod_ip and mod_arp: the IPv4 and the ARP rule for dst_ip, same actions
dest_rules(u, dst_sw, out_port) ==
    << FlowAdd(u, Rule(PRIO_DEST, Match(ETH_IP, ip_of(dst_sw)), out_port)),
       FlowAdd(u, Rule(PRIO_DEST, Match(ETH_ARP, ip_of(dst_sw)), out_port)) >>

\* Mutation: the destination's own switch outputs on port 1.
own_port_fallback(hp, dst_sw) == FALLBACK_PORT

\* out_port = self.host_port.get(dst_sw, 1)
own_port(hp, dst_sw) == Get(hp, dst_sw, FALLBACK_PORT)

\* Mutation: every switch of the graph is taken for registered.
has_datapath_always(dps, u) == TRUE

\* dp = self.datapaths.get(u); if not dp: continue
has_datapath(dps, u) == u \in dps

\* Mutation: the next switch is the lowest-numbered neighbour of u.
next_switch_lowest(g, u, path) == Min(Neighbors(g, u))

\* v = path[1]
next_switch(g, u, path) == path[2]

\* The body of the loop over G.nodes for one switch u and destination dst_sw.
InstallAt(u, dst_sw, g, adjm, hp, dps, sp) ==
    LET reach   == u = dst_sw \/ <<u, dst_sw>> \in DOMAIN sp
        v       == next_switch(g, u, sp[<<u, dst_sw>>])
        known   == u = dst_sw \/ <<u, v>> \in DOMAIN adjm
        outport == IF u = dst_sw THEN own_port(hp, dst_sw) ELSE adjm[<<u, v>>]
    IN  IF ~reach THEN <<>>
        ELSE IF ~known THEN <<>>
        ELSE IF ~has_datapath(dps, u) THEN <<>>
        ELSE dest_rules(u, dst_sw, outport)

\* Mutation: the first switch without a path to dst_sw ends the loop over the
\* switches and nothing is installed for this destination.
install_tree_to_destination_abort(dst_sw, g, adjm, hp, dps, sp) ==
    LET s == SortedSeq(g.nodes)
        f[i \in 0..Len(s)] ==
            IF i = 0 THEN <<>>
            ELSE f[i-1] \o InstallAt(s[i], dst_sw, g, adjm, hp, dps, sp)
    IN  IF \E u \in g.nodes : u # dst_sw /\ <<u, dst_sw>> \notin DOMAIN sp THEN <<>>
        ELSE f[Len(s)]

install_tree_to_destination(dst_sw, g, adjm, hp, dps, sp) ==
    LET s == SortedSeq(g.nodes)
        f[i \in 0..Len(s)] ==
            IF i = 0 THEN <<>>
            ELSE f[i-1] \o InstallAt(s[i], dst_sw, g, adjm, hp, dps, sp)
    IN  f[Len(s)]

install_all_destinations(g, adjm, hp, dps, sp) ==
    LET f[j \in 0..NUM_HOSTS] ==
            IF j = 0 THEN <<>>
            ELSE IF j \notin g.nodes THEN f[j-1]
            ELSE f[j-1] \o install_tree_to_destination(j, g, adjm, hp, dps, sp)
    IN  f[NUM_HOSTS]

-----------------------------------------------------------------------------
(* State after ProactiveRouting.__init__ *)

EmptyGraph == [nodes |-> {}, edges |-> EmptyFn]

NoChoice == [known |-> FALSE, path |-> EmptyFn]

\* op: the handler; done: it completed a rebuild cycle; again: it is a
\* reinstall that follows a completed cycle with no handler in between
Handler(op, done) ==
    [op |-> op, done |-> done, again |-> op = "reinstall" /\ done /\ last.done]

NoProbe == [fn |-> "none"]

\* The threads that can run _rebuild_graph_and_push: the application's event
\* loop and a request handler of the REST server
Threads == {"events", "rest"}

Idle_pc == [pc |-> "idle", op |-> "none"]

\* No rebuild is in progress (the handlers of the sequential specifications
\* run a cycle from start to end in one step and never record one)
NoRebuild == [at |-> [t \in Threads |-> Idle_pc], waiting |-> <<>>, built |-> {}]

Constructed ==
    /\ wiring \in Wirings
    /\ topoSwitches = {}
    /\ topoLinks = {}
    /\ topoDirty = 0
    /\ flows = [s \in wiring.sw |-> {}]
    /\ mode = "hops"
    /\ G = EmptyGraph
    /\ adj = EmptyFn
    /\ datapaths = {}
    /\ sw_all_ports = EmptyFn
    /\ sw_link_ports = EmptyFn
    /\ host_port = EmptyFn
    /\ spChoice = [m \in Modes |-> NoChoice]
    /\ sent = <<>>
    /\ last = [op |-> "init", done |-> FALSE, again |-> FALSE]
    /\ port_stats = EmptyFn
    /\ port_stats_prev = EmptyFn
    /\ stats_timestamp = EmptyFn
    /\ flow_stats = EmptyFn
    /\ pending = {}
    /\ heard = <<>>
    /\ running = NoRebuild

Init == Constructed /\ probe = NoProbe

-----------------------------------------------------------------------------
(* _rebuild_graph_and_push *)

\* Mutation: the library breaks ties anew on every call.
LibraryChoices_anew(g, m, dirty) == TieBreaks(g)

\* What the library answers on the graph just built: the same as before when
\* the provider's snapshot (and so the graph, in the same insertion order) and
\* the mode are those of an earlier build, else any of its tie-breaks.
LibraryChoices(g, m, dirty) ==
    IF ~dirty /\ spChoice[m].known THEN {spChoice[m].path} ELSE TieBreaks(g)

Remember(m, sp, dirty) ==
    [mm \in Modes |->
        IF mm = m THEN [known |-> TRUE, path |-> sp]
        ELSE IF dirty THEN NoChoice ELSE spChoice[mm]]

\* Mutation: the destination rules are sent first, the wipe after them.
CycleMessages_wipe_last(g, adjm, hp, dps, sp) ==
    install_all_destinations(g, adjm, hp, dps, sp) \o clear_all_flows(dps)

CycleMessages(g, adjm, hp, dps, sp) ==
    clear_all_flows(dps) \o install_all_destinations(g, adjm, hp, dps, sp)

\* Mutation: the cycle goes on with an empty graph.
graph_is_empty_never(g) == FALSE

\* self.G.number_of_nodes() == 0
graph_is_empty(g) == Cardinality(g.nodes) = 0

\* op: the trigger; m: self.mode and allports: self.sw_all_ports when the cycle
\* starts; sws, lks: what the topology provider returns; dirty: it changed
\* since the last build
rebuild_graph_and_push(op, m, allports, sws, lks, dirty) ==
    LET b == build_graph(sws, lks, m)
    IN  /\ G' = b.G
        /\ adj' = b.adj
        /\ sw_link_ports' = b.sw_link_ports
        /\ topoDirty' = 0
        /\ \E sp \in LibraryChoices(b.G, m, dirty) :
              /\ spChoice' = Remember(m, sp, dirty)
              /\ IF graph_is_empty(b.G)
                 THEN /\ host_port' = host_port
                      /\ sent' = <<>>
                      /\ flows' = flows
                      /\ last' = Handler(op, FALSE)
                 ELSE LET hp   == deduce_host_ports(b.G, allports, b.sw_link_ports)
                          msgs == CycleMessages(b.G, b.adj, hp, datapaths, sp)
                      IN  /\ host_port' = hp
                          /\ sent' = msgs
                          /\ flows' = Deliver(flows, msgs)
                          /\ last' = Handler(op, TRUE)

-----------------------------------------------------------------------------
(* The environment's protocol: switches come up and go down one at a time,  *)
(* and the provider drops at most MaxStale switches or links between two    *)
(* builds of the graph                                                      *)

MaxStale == 1

Up(s) == s \in datapaths /\ s \in topoSwitches /\ s \in DOMAIN sw_all_ports

Down(s) == s \notin datapaths /\ s \notin topoSwitches

Settled(s) == Up(s) \/ Down(s)

OneAtATime(s) == \A t \in Switches \ {s} : Settled(t)

-----------------------------------------------------------------------------
(* Handlers of the controller *)

\* Mutation: a dead datapath starts a rebuild cycle.
StateChange_rebuilds(s, st) ==
    /\ OneAtATime(s)
    /\ \/ st = "CONFIG" /\ s \notin datapaths /\ s \notin topoSwitches
       \/ st = "MAIN" /\ s \in datapaths
       \/ st = "DEAD" /\ s \in datapaths /\ s \in wiring.flaky
    /\ datapaths' = IF st = "DEAD" THEN datapaths \ {s} ELSE datapaths \cup {s}
    /\ IF st = "DEAD"
       THEN /\ G' = build_graph(topoSwitches, topoLinks, mode).G
            /\ adj' = build_graph(topoSwitches, topoLinks, mode).adj
            /\ sw_link_ports' = build_graph(topoSwitches, topoLinks, mode).sw_link_ports
            /\ host_port' = deduce_host_ports(G', sw_all_ports, sw_link_ports')
            /\ sent' = clear_all_flows(datapaths')
            /\ flows' = Deliver(flows, sent')
            /\ last' = Handler("state_change", FALSE)
            /\ UNCHANGED <<stats, running, probe, wiring, topoSwitches, topoLinks, topoDirty, mode,
                           sw_all_ports, spChoice>>
       ELSE /\ sent' = <<>>
            /\ last' = Handler("state_change", FALSE)
            /\ UNCHANGED <<stats, running, probe, wiring, topoSwitches, topoLinks, topoDirty, flows,
                           mode, G, adj, sw_all_ports, sw_link_ports, host_port, spChoice>>

\* _state_change: MAIN_DISPATCHER and CONFIG_DISPATCHER register, DEAD_DISPATCHER removes
StateChange(s, st) ==
    /\ OneAtATime(s)
    /\ \/ st = "CONFIG" /\ s \notin datapaths /\ s \notin topoSwitches
       \/ st = "MAIN" /\ s \in datapaths
       \/ st = "DEAD" /\ s \in datapaths /\ s \in wiring.flaky
    /\ datapaths' = IF st = "DEAD" THEN datapaths \ {s} ELSE datapaths \cup {s}
    /\ sent' = <<>>
    /\ last' = Handler("state_change", FALSE)
    /\ UNCHANGED <<stats, running, probe, wiring, topoSwitches, topoLinks, topoDirty, flows, mode, G, adj,
                   sw_all_ports, sw_link_ports, host_port, spChoice>>

\* _switch_features: the two base rules and a port description request
SwitchFeatures(s) ==
    /\ s \in datapaths
    /\ OneAtATime(s) /\ ~Settled(s)
    /\ sent' = install_base_rules(s) \o <<Request(s, "port_desc")>>
    /\ flows' = Deliver(flows, sent')
    /\ last' = Handler("switch_features", FALSE)
    /\ UNCHANGED <<stats, running, probe, wiring, topoSwitches, topoLinks, topoDirty, mode, G, adj, datapaths,
                   sw_all_ports, sw_link_ports, host_port, spChoice>>

\* The ports a switch describes: its physical ports and the reserved LOCAL port
PortDescBody(s) == wiring.ports[s] \cup {OFPP_LOCAL}

\* _port_desc_reply
PortDescReply(s) ==
    /\ s \in datapaths
    /\ OneAtATime(s) /\ ~Settled(s)
    /\ LET ports == {p \in PortDescBody(s) : PortLess(p, OFPP_MAX)}
       IN  /\ sw_all_ports' = (s :> ports) @@ sw_all_ports
           /\ rebuild_graph_and_push("port_desc_reply", mode, sw_all_ports',
                                     topoSwitches, topoLinks, topoDirty > 0)
    /\ UNCHANGED <<stats, running, probe, wiring, topoSwitches, topoLinks, mode, datapaths>>

\* The provider registers a switch and raises EventSwitchEnter; _on_switch_enter
SwitchEnter(s) ==
    /\ s \in Switches \ topoSwitches
    /\ s \in datapaths
    /\ OneAtATime(s)
    /\ topoSwitches' = topoSwitches \cup {s}
    /\ rebuild_graph_and_push("switch_enter", mode, sw_all_ports,
                              topoSwitches', topoLinks, TRUE)
    /\ UNCHANGED <<stats, running, probe, wiring, topoLinks, mode, datapaths, sw_all_ports>>

\* The provider discovers a link between two of its switches and raises
\* EventLinkAdd; _on_link_add
LinkAdd(l) ==
    /\ l \in wiring.links \ topoLinks
    /\ {l.src.dpid, l.dst.dpid} \subseteq topoSwitches
    /\ topoLinks' = topoLinks \cup {l}
    /\ rebuild_graph_and_push("link_add", mode, sw_all_ports,
                              topoSwitches, topoLinks', TRUE)
    /\ UNCHANGED <<stats, running, probe, wiring, topoSwitches, mode, datapaths, sw_all_ports>>

\* The provider drops a switch and its links; the controller has no handler
\* for EventSwitchLeave
SwitchLeave(s) ==
    /\ s \in topoSwitches
    /\ s \in wiring.flaky
    /\ OneAtATime(s)
    /\ topoSwitches' = topoSwitches \ {s}
    /\ topoLinks' = {l \in topoLinks : l.src.dpid # s /\ l.dst.dpid # s}
    /\ topoDirty < MaxStale
    /\ topoDirty' = topoDirty + 1
    /\ sent' = <<>>
    /\ last' = Handler("switch_leave", FALSE)
    /\ UNCHANGED <<stats, running, probe, wiring, flows, mode, G, adj, datapaths, sw_all_ports, sw_link_ports,
                   host_port, spChoice>>

\* The provider drops a link; the controller has no handler for EventLinkDelete
LinkDelete(l) ==
    /\ l \in topoLinks
    /\ l \in wiring.cuts
    /\ topoLinks' = topoLinks \ {l}
    /\ topoDirty < MaxStale
    /\ topoDirty' = topoDirty + 1
    /\ sent' = <<>>
    /\ last' = Handler("link_delete", FALSE)
    /\ UNCHANGED <<stats, running, probe, wiring, topoSwitches, flows, mode, G, adj, datapaths, sw_all_ports,
                   sw_link_ports, host_port, spChoice>>

\* Mutation: the rebuild runs whether or not the mode changes.
set_mode_always(new_mode) ==
    /\ new_mode \in Modes
    /\ mode' = new_mode
    /\ rebuild_graph_and_push("set_mode", new_mode, sw_all_ports,
                              topoSwitches, topoLinks, topoDirty > 0)
    /\ UNCHANGED <<stats, running, wiring, topoSwitches, topoLinks, datapaths, sw_all_ports>>

\* ProactiveRouting.set_mode (the caller says what becomes of probe)
set_mode(new_mode) ==
    /\ new_mode \in Modes
    /\ IF new_mode # mode
       THEN /\ mode' = new_mode
            /\ rebuild_graph_and_push("set_mode", new_mode, sw_all_ports,
                                      topoSwitches, topoLinks, topoDirty > 0)
       ELSE /\ sent' = <<>>
            /\ last' = Handler("set_mode", FALSE)
            /\ UNCHANGED <<mode, topoDirty, flows, G, adj, sw_link_ports, host_port, spChoice>>
    /\ UNCHANGED <<stats, running, wiring, topoSwitches, topoLinks, datapaths, sw_all_ports>>

\* Mutation: the rebuild forgets the current counter samples.
reinstall_forgets_samples ==
    /\ rebuild_graph_and_push("reinstall", mode, sw_all_ports,
                              topoSwitches, topoLinks, topoDirty > 0)
    /\ port_stats' = EmptyFn
    /\ UNCHANGED <<port_stats_prev, stats_timestamp, flow_stats, pending, heard, running, wiring,
                   topoSwitches, topoLinks, mode, datapaths, sw_all_ports>>

\* ProactiveRouting.reinstall (the caller says what becomes of probe)
reinstall ==
    /\ rebuild_graph_and_push("reinstall", mode, sw_all_ports,
                              topoSwitches, topoLinks, topoDirty > 0)
    /\ UNCHANGED <<stats, running, wiring, topoSwitches, topoLinks, mode, datapaths, sw_all_ports>>

Next ==
    \/ \E s \in Switches, st \in {"CONFIG", "MAIN", "DEAD"} : StateChange(s, st)
    \/ \E s \in Switches : SwitchFeatures(s)
    \/ \E s \in Switches : PortDescReply(s)
    \/ \E s \in Switches : SwitchEnter(s)
    \/ \E l \in wiring.links : LinkAdd(l)
    \/ \E s \in Switches : SwitchLeave(s)
    \/ \E l \in wiring.links : LinkDelete(l)
    \/ \E m \in Modes : set_mode(m) /\ UNCHANGED probe
    \/ reinstall /\ UNCHANGED probe

Spec == Init /\ [][Next]_vars

-----------------------------------------------------------------------------
(* _deduce_host_ports on its own: one switch, every pair of port sets *)

MaxPort == 4

ProbePorts == 1..MaxPort

ProbeSwitch == 1

InitPorts ==
    /\ Constructed
    /\ wiring = WiringCorner
    /\ \E a \in SUBSET ProbePorts, l \in SUBSET ProbePorts :
          probe = [fn |-> "deduce_host_ports", allp |-> a, linkp |-> l, hp |-> EmptyFn]

\* self.sw_all_ports and self.sw_link_ports are defaultdicts: a switch with no
\* ports recorded has no entry.
PortsEntry(ports) == IF ports = {} THEN EmptyFn ELSE (ProbeSwitch :> ports)

RunDeduceHostPorts ==
    /\ probe.fn = "deduce_host_ports"
    /\ probe.hp = EmptyFn
    /\ probe' = [probe EXCEPT !.hp =
                    deduce_host_ports([nodes |-> {ProbeSwitch}, edges |-> EmptyFn],
                                      PortsEntry(probe.allp), PortsEntry(probe.linkp))]
    /\ UNCHANGED <<stats, running, wiring, topoSwitches, topoLinks, topoDirty, flows, mode, G, adj, datapaths,
                   sw_all_ports, sw_link_ports, host_port, spChoice, sent, last>>

SpecPorts == InitPorts /\ [][RunDeduceHostPorts]_vars

-----------------------------------------------------------------------------
(* RestAPI: the REST front end.  probe holds the request being served and  *)
(* its response; last and sent keep recording the handlers of              *)
(* ProactiveRouting only.                                                  *)

\* dict.get on a missing key
None == 0

\* A node identifier as the query string gives it: decimal digits ('7'), 's'
\* and digits ('s7'), a dotted quad ('10.0.0.7': net <<10,0,0>>, n 7), any
\* other text, or no parameter at all
Param(form, net, n) == [form |-> form, net |-> net, n |-> n]

Digits(i) == Param("digits", <<>>, i)

SName(i) == Param("s", <<>>, i)

HostAddr(i) == Param("quad", <<10, 0, 0>>, i)

ForeignAddr(i) == Param("quad", <<192, 168, 0>>, i)

Junk == Param("text", <<>>, 0)

Missing == Param("missing", <<>>, 0)

\* Mutation: a dotted address resolves to the last octet plus one.
parse_node_shifted(x) ==
    IF x.form = "s" THEN [ok |-> TRUE, id |-> x.n, error |-> ""]
    ELSE IF x.form = "quad"
         THEN IF x.net = <<10, 0, 0>> THEN [ok |-> TRUE, id |-> x.n + 1, error |-> ""]
              ELSE [ok |-> FALSE, id |-> 0, error |-> "solo IPs 10.0.0.X son validas para hosts"]
    ELSE IF x.form = "digits" THEN [ok |-> TRUE, id |-> x.n, error |-> ""]
    ELSE [ok |-> FALSE, id |-> 0, error |-> "formato de nodo no valido"]

\* parse_node: the switch id, or ValueError
parse_node(x) ==
    IF x.form = "s" THEN [ok |-> TRUE, id |-> x.n, error |-> ""]
    ELSE IF x.form = "quad"
         THEN IF x.net = <<10, 0, 0>> THEN [ok |-> TRUE, id |-> x.n, error |-> ""]
              ELSE [ok |-> FALSE, id |-> 0, error |-> "solo IPs 10.0.0.X son validas para hosts"]
    ELSE IF x.form = "digits" THEN [ok |-> TRUE, id |-> x.n, error |-> ""]
    ELSE [ok |-> FALSE, id |-> 0, error |-> "formato de nodo no valido"]

Response(status, body) == [status |-> status, body |-> body]

\* nx.shortest_path(self.app.G, source=src, target=dst, weight='weight') on the
\* graph the last build left: what the library answered the installer
HasPath(src, dst) == src = dst \/ <<src, dst>> \in DOMAIN spChoice[mode].path

shortest_path(src, dst) == IF src = dst THEN <<src>> ELSE spChoice[mode].path[<<src, dst>>]

PathLinks(path) ==
    [i \in 1..(Len(path) - 1) |->
        LET data == G.edges[undirected_key(path[i], path[i+1])]
        IN  [u |-> path[i], v |-> path[i+1], bw |-> data.bw, weight |-> data.weight,
             out_port |-> Get(adj, <<path[i], path[i+1]>>, None)]]

PathPayload(src, dst) ==
    LET path == shortest_path(src, dst)
    IN  [ mode |-> mode, src |-> src, dst |-> dst, path |-> path,
          hops |-> Len(path) - 1,
          weight_sum |-> PathWeight(G, path),
          links |-> PathLinks(path),
          dst_host_port |-> Get(host_port, dst, None) ]

\* The body of RestAPI.path
path_response(src_param, dst_param) ==
    IF src_param = Missing \/ dst_param = Missing
    THEN Response(400, [error |-> "use /path?src=<...>&dst=<...>"])
    ELSE LET src == parse_node(src_param)
             dst == parse_node(dst_param)
         IN  IF ~src.ok THEN Response(500, [error |-> src.error])
             ELSE IF ~dst.ok THEN Response(500, [error |-> dst.error])
             ELSE IF src.id \notin G.nodes \/ dst.id \notin G.nodes
                  THEN Response(404, [error |-> "src o dst no estan en el grafo",
                                      nodes |-> G.nodes])
             ELSE IF ~HasPath(src.id, dst.id)
                  THEN Response(404, [error |-> "no path between src and dst"])
             ELSE Response(200, PathPayload(src.id, dst.id))

\* A switch id that no wiring has
AbsentSwitch == Min((1..NUM_HOSTS) \ Switches)

QueryIds == wiring.sw \cup {AbsentSwitch}

QueryParams ==
    {Digits(i) : i \in QueryIds} \cup {SName(i) : i \in QueryIds}
        \cup {HostAddr(i) : i \in QueryIds}
        \cup {ForeignAddr(AbsentSwitch), Junk, Missing}

ModeValues == Modes \cup {"ecmp", "HOPS"}

\* RestAPI.path
RestAPI_path(src_param, dst_param) ==
    /\ probe.fn = "none"
    /\ probe' = [fn |-> "path", src |-> src_param, dst |-> dst_param,
                 resp |-> path_response(src_param, dst_param)]
    /\ UNCHANGED controller

\* Mutation: a value that is no mode is taken for inverse-bandwidth mode.
RestAPI_set_mode_coerce(value) ==
    /\ probe.fn = "none"
    /\ set_mode(IF value \in Modes THEN value ELSE "distrak")
    /\ probe' = [fn |-> "set_mode", value |-> value,
                 resp |-> Response(200, [mode |-> mode'])]

\* RestAPI.set_mode
RestAPI_set_mode(value) ==
    /\ probe.fn = "none"
    /\ IF value \notin Modes
       THEN /\ probe' = [fn |-> "set_mode", value |-> value,
                         resp |-> Response(400, [error |-> "mode must be hops|distrak"])]
            /\ UNCHANGED controller
       ELSE /\ set_mode(value)
            /\ probe' = [fn |-> "set_mode", value |-> value,
                         resp |-> Response(200, [mode |-> mode'])]

\* RestAPI.reinstall
RestAPI_reinstall ==
    /\ probe.fn = "none"
    /\ reinstall
    /\ probe' = [fn |-> "reinstall", resp |-> Response(200, [status |-> "reinstalled"])]

\* The response leaves; the next request can be served
Respond ==
    /\ probe.fn # "none"
    /\ probe' = NoProbe
    /\ UNCHANGED controller

\* Every switch of the wiring has registered and described its ports while the
\* provider knew none (each _port_desc_reply found the graph empty); the
\* provider has since learnt some switches and links, and its events are
\* still queued.
InitRest ==
    /\ wiring \in Wirings
    /\ topoSwitches \in SUBSET wiring.sw
    /\ topoLinks \in SUBSET {l \in wiring.links : {l.src.dpid, l.dst.dpid} \subseteq topoSwitches}
    /\ topoDirty = 1
    /\ datapaths = wiring.sw
    /\ sw_all_ports = [s \in wiring.sw |-> wiring.ports[s]]
    /\ flows = [s \in wiring.sw |-> BaseRules]
    /\ mode = "hops"
    /\ G = EmptyGraph
    /\ adj = EmptyFn
    /\ sw_link_ports = EmptyFn
    /\ host_port = EmptyFn
    /\ spChoice = [m \in Modes |-> IF m = "hops" THEN [known |-> TRUE, path |-> EmptyFn]
                                   ELSE NoChoice]
    /\ sent = <<>>
    /\ last = [op |-> "port_desc_reply", done |-> FALSE, again |-> FALSE]
    /\ port_stats = EmptyFn
    /\ port_stats_prev = EmptyFn
    /\ stats_timestamp = EmptyFn
    /\ flow_stats = EmptyFn
    /\ pending = {}
    /\ heard = <<>>
    /\ running = NoRebuild
    /\ probe = NoProbe

NextRest ==
    \/ \E s \in QueryParams, d \in QueryParams : RestAPI_path(s, d)
    \/ \E v \in ModeValues : RestAPI_set_mode(v)
    \/ RestAPI_reinstall
    \/ Respond

SpecRest == InitRest /\ [][NextRest]_vars

-----------------------------------------------------------------------------
(* The statistics engine: _port_stats_reply, get_link_stats, /stats/links  *)

\* hub.sleep(5): the period of _monitor_loop, in seconds
PollPeriod == 5

\* What time.time() may return when a reply is handled.  The wall clock can
\* stand still or be set back between two replies.
Times == {2 * PollPeriod, 3 * PollPeriod}

\* The counters of an OFPPortStats entry
Counters(rxp, txp, rxb, txb) ==
    [ rx_packets |-> rxp, tx_packets |-> txp, rx_bytes |-> rxb, tx_bytes |-> txb,
      rx_dropped |-> 0, tx_dropped |-> 0, rx_errors |-> 0, tx_errors |-> 0 ]

Idle == Counters(0, 0, 0, 0)

Trickle == Counters(2, 2, 2500, 2500)

Busy == Counters(3, 3, 1250000, 1250000)

Readings == {Idle, Trickle, Busy}

\* The dict stored per port: the counters and the time of the reply
Sample(c, timestamp) == c @@ [timestamp |-> timestamp]

NoSample == EmptyFn

\* stats.get(name, 0)
Field(sample, name) == IF name \in DOMAIN sample THEN sample[name] ELSE 0

\* self.port_stats.get(dpid, {}).get(port, {})
SampleOf(table, dpid, port) == Get(Get(table, dpid, EmptyFn), port, NoSample)

\* Mutation: the hundredths are cut off, not rounded.
Round2_floor(num, den) == (100 * num) \div den

\* round(num / den, 2) for den > 0, in hundredths: the nearest hundredth, a
\* half to the even one.  (The code rounds the float quotient; the float is
\* within an ulp of the exact quotient, which can only matter at a half.)
Round2(num, den) ==
    LET n == 100 * num
        q == n \div den
        r == n - q * den
    IN  IF 2 * r < den THEN q
        ELSE IF 2 * r > den THEN q + 1
        ELSE IF q % 2 = 0 THEN q ELSE q + 1

\* Mutation: the loss is not cut off at zero.
packet_loss_signed(packets_u_tx, packets_v_rx) == packets_u_tx - packets_v_rx

\* packet_loss = max(0, packets_u_tx - packets_v_rx)
packet_loss_of(packets_u_tx, packets_v_rx) == Max({0, packets_u_tx - packets_v_rx})

\* One row of get_link_stats.  throughput_mbps, utilization and
\* packet_loss_rate are in hundredths (the code rounds them to two decimals).
\* utilization is round(throughput_u_to_v / bw * 100, 2) with the unrounded
\* throughput bytes_u_tx * 8 / (time_diff * 1000000), that is
\* bytes_u_tx * 8 / (time_diff * 10000 * bw).
link_row(u, v) ==
    LET port_u       == Get(adj, <<u, v>>, None)
        port_v       == Get(adj, <<v, u>>, None)
        stats_u      == SampleOf(port_stats, u, port_u)
        stats_v      == SampleOf(port_stats, v, port_v)
        stats_u_prev == SampleOf(port_stats_prev, u, port_u)
        stats_v_prev == SampleOf(port_stats_prev, v, port_v)
        time_diff    == Field(stats_u, "timestamp") - Field(stats_u_prev, "timestamp")
        bytes_u_tx   == Field(stats_u, "tx_bytes") - Field(stats_u_prev, "tx_bytes")
        packets_u_tx == Field(stats_u, "tx_packets") - Field(stats_u_prev, "tx_packets")
        packets_v_rx == Field(stats_v, "rx_packets") - Field(stats_v_prev, "rx_packets")
        packet_loss  == packet_loss_of(packets_u_tx, packets_v_rx)
        bw           == bw_of(u, v)
    IN  [ src |-> u, dst |-> v, src_port |-> port_u, dst_port |-> port_v, bw_mbps |-> bw,
          throughput_mbps |->
              IF time_diff > 0 THEN Round2(bytes_u_tx * 8, time_diff * 1000000) ELSE 0,
          utilization |->
              IF time_diff > 0 /\ bw > 0 THEN Round2(bytes_u_tx * 8, time_diff * 10000 * bw)
              ELSE 0,
          packet_loss_rate |->
              IF time_diff > 0 /\ packets_u_tx > 0 THEN Round2(packet_loss * 100, packets_u_tx)
              ELSE 0,
          rx_packets_u |-> Field(stats_u, "rx_packets"),
          tx_packets_u |-> Field(stats_u, "tx_packets"),
          rx_dropped_u |-> Field(stats_u, "rx_dropped"),
          tx_dropped_u |-> Field(stats_u, "tx_dropped") ]

\* Mutation: both directions of a link are processed.
skip_direction_never(u, v) == FALSE

\* if u > v: continue
skip_direction(u, v) == u > v

\* get_link_stats: the rows, by the key (u, v) of self.adj they are made for
get_link_stats ==
    LET rows == {k \in DOMAIN adj :
                    /\ ~skip_direction(k[1], k[2])
                    /\ Get(adj, <<k[1], k[2]>>, None) # None
                    /\ Get(adj, <<k[2], k[1]>>, None) # None
                    /\ SampleOf(port_stats, k[1], Get(adj, <<k[1], k[2]>>, None)) # NoSample
                    /\ SampleOf(port_stats, k[2], Get(adj, <<k[2], k[1]>>, None)) # NoSample}
    IN  [k \in rows |-> link_row(k[1], k[2])]

\* The bodies of the port-counter replies of switch dpid: some or all of its
\* ports; a port without a link (the host's) is idle
ReplyBodies(dpid) ==
    {[p \in P |-> IF p \in Get(sw_link_ports, dpid, {}) THEN c ELSE Idle] :
        P \in {Get(sw_link_ports, dpid, {}), wiring.ports[dpid]}, c \in Readings}

\* Mutation: a previous sample, once kept, is never replaced.
port_stats_reply_first_prev(dpid, body, timestamp) ==
    /\ dpid \in datapaths
    /\ LET cur  == Get(port_stats, dpid, EmptyFn)
           prev == Get(port_stats_prev, dpid, EmptyFn)
           kept == DOMAIN body \cap DOMAIN cur
       IN  /\ port_stats_prev' =
                 (dpid :> [p \in DOMAIN prev \cup kept |->
                              IF p \in DOMAIN prev THEN prev[p] ELSE cur[p]]) @@ port_stats_prev
           /\ port_stats' =
                 (dpid :> [p \in DOMAIN cur \cup DOMAIN body |->
                              IF p \in DOMAIN body THEN Sample(body[p], timestamp)
                              ELSE cur[p]]) @@ port_stats
    /\ stats_timestamp' = (dpid :> timestamp) @@ stats_timestamp
    /\ sent' = <<>>
    /\ last' = Handler("port_stats_reply", FALSE)
    /\ UNCHANGED <<flow_stats, running, probe, wiring, topoSwitches, topoLinks, topoDirty, flows, mode, G, adj,
                   datapaths, sw_all_ports, sw_link_ports, host_port, spChoice>>

\* _port_stats_reply (the caller says what becomes of the history and of the
\* requests not answered)
port_stats_reply(dpid, body, timestamp) ==
    /\ dpid \in datapaths
    /\ LET cur  == Get(port_stats, dpid, EmptyFn)
           prev == Get(port_stats_prev, dpid, EmptyFn)
           kept == DOMAIN body \cap DOMAIN cur
       IN  /\ port_stats_prev' =
                 (dpid :> [p \in DOMAIN prev \cup kept |->
                              IF p \in kept THEN cur[p] ELSE prev[p]]) @@ port_stats_prev
           /\ port_stats' =
                 (dpid :> [p \in DOMAIN cur \cup DOMAIN body |->
                              IF p \in DOMAIN body THEN Sample(body[p], timestamp)
                              ELSE cur[p]]) @@ port_stats
    /\ stats_timestamp' = (dpid :> timestamp) @@ stats_timestamp
    /\ sent' = <<>>
    /\ last' = Handler("port_stats_reply", FALSE)
    /\ UNCHANGED <<flow_stats, running, probe, wiring, topoSwitches, topoLinks, topoDirty, flows, mode, G, adj,
                   datapaths, sw_all_ports, sw_link_ports, host_port, spChoice>>

\* RestAPI.stats_links
RestAPI_stats_links ==
    /\ probe.fn = "none"
    /\ probe' = [fn |-> "stats_links", resp |-> Response(200, get_link_stats)]
    /\ UNCHANGED controller

\* s1 and s2 of NSFNET and the 50 Mbps link between them; s1 has its host on
\* port 1, s2 has no host attached
WiringPair ==
    [ sw    |-> {1, 2},
      ports |-> (1 :> {1, 2} @@ 2 :> {2}),
      links |-> { Link(1, 2, 2, 2) },
      flaky |-> {},
      cuts  |-> {} ]

\* Every switch of w is up, every link is discovered and the rebuild cycle of
\* _on_link_add has completed; no counters have been received.
Discovered(w) ==
    /\ wiring = w
    /\ topoSwitches = wiring.sw
    /\ topoLinks = wiring.links
    /\ topoDirty = 0
    /\ mode = "hops"
    /\ datapaths = wiring.sw
    /\ sw_all_ports = [s \in wiring.sw |-> wiring.ports[s]]
    /\ G = build_graph(topoSwitches, topoLinks, mode).G
    /\ adj = build_graph(topoSwitches, topoLinks, mode).adj
    /\ sw_link_ports = build_graph(topoSwitches, topoLinks, mode).sw_link_ports
    /\ host_port = deduce_host_ports(G, sw_all_ports, sw_link_ports)
    /\ \E sp \in TieBreaks(G) :
          /\ spChoice = [m \in Modes |-> IF m = mode THEN [known |-> TRUE, path |-> sp]
                                         ELSE NoChoice]
          /\ sent = CycleMessages(G, adj, host_port, datapaths, sp)
    /\ flows = Deliver([s \in wiring.sw |-> {}], sent)
    /\ last = [op |-> "link_add", done |-> TRUE, again |-> FALSE]
    /\ port_stats = EmptyFn
    /\ port_stats_prev = EmptyFn
    /\ stats_timestamp = EmptyFn
    /\ flow_stats = EmptyFn
    /\ pending = {}
    /\ heard = <<>>
    /\ probe = NoProbe

InitStats == Discovered(WiringPair) /\ running = NoRebuild

NextStats ==
    \/ /\ probe.fn = "none"
       /\ \E s \in wiring.sw, t \in Times :
             \E body \in ReplyBodies(s) : port_stats_reply(s, body, t) /\ UNCHANGED <<heard, pending>>
    \/ RestAPI_stats_links
    \/ Respond

SpecStats == InitStats /\ [][NextStats]_vars

-----------------------------------------------------------------------------
(* The link statistics over every graph a rebuild produces: a rebuild from  *)
(* any provider snapshot, then the first poll of the switches               *)

\* The first reply of switch dpid: every port, no traffic yet
FirstPoll(dpid) ==
    /\ probe.fn = "none"
    /\ dpid \notin DOMAIN port_stats
    /\ port_stats_reply(dpid, [p \in wiring.ports[dpid] |-> Idle], 2 * PollPeriod)
    /\ UNCHANGED <<heard, pending>>

NextRows ==
    \/ RestAPI_reinstall
    \/ \E s \in datapaths : FirstPoll(s)
    \/ RestAPI_stats_links
    \/ Respond

SpecRows == InitRest /\ [][NextRows]_vars

-----------------------------------------------------------------------------
(* The rebuild step by step.  Handlers run in green threads: the events of  *)
(* the application in its event loop, each REST request in a thread of the  *)
(* WSGI server.  A thread runs until it blocks; get_all_switch and          *)
(* get_all_link block on the reply of the topology application              *)
(* (send_request waits on reply_q.get()), so _build_graph is suspended      *)
(* twice after it has cleared the graph, and any other thread may run.      *)
(* The topology application serves the requests in the order they were      *)
(* sent (running.waiting).                                                  *)

\* self.sw_link_ports[u].add(port) on a defaultdict(set)
MergePorts(f, g) == [s \in DOMAIN f \cup DOMAIN g |-> Get(f, s, {}) \cup Get(g, s, {})]

\* A finished _build_graph: what it left and the snapshot it was given
Build(g, adjm, sws, lks) == [G |-> g, adj |-> adjm, switches |-> sws, links |-> lks]

\* RestAPI.topology
RestAPI_topology ==
    /\ probe.fn = "none"
    /\ probe' = [fn |-> "topology",
                 resp |-> Response(200, [mode |-> mode, nodes |-> G.nodes, links |-> G.edges])]
    /\ UNCHANGED controller

\* _rebuild_graph_and_push up to the request of get_all_switch: the three
\* clear() calls (the library has no path on a graph without edges)
BeginRebuild(t, op) ==
    /\ probe.fn = "none"
    /\ running.at[t].pc = "idle"
    /\ G' = EmptyGraph
    /\ adj' = EmptyFn
    /\ sw_link_ports' = EmptyFn
    /\ spChoice' = [m \in Modes |-> [known |-> TRUE, path |-> EmptyFn]]
    /\ running' = [running EXCEPT !.at[t] = [pc |-> "get_all_switch", op |-> op],
                                  !.waiting = Append(running.waiting, t)]
    /\ UNCHANGED <<stats, probe, wiring, topoSwitches, topoDirty, flows, datapaths, sw_all_ports,
                   host_port, sent, last>>

\* The provider discovers a link and the event loop starts _on_link_add
OnLinkAdd(l) ==
    /\ l \in wiring.links \ topoLinks
    /\ topoLinks' = topoLinks \cup {l}
    /\ BeginRebuild("events", "link_add")
    /\ UNCHANGED mode

\* POST /reinstall starts ProactiveRouting.reinstall in a thread of the server
OnReinstall ==
    /\ BeginRebuild("rest", "reinstall")
    /\ UNCHANGED <<mode, topoLinks>>

\* POST /set_mode with another mode: self.mode is set, then the rebuild starts
OnSetMode(new_mode) ==
    /\ new_mode \in Modes \ {mode}
    /\ mode' = new_mode
    /\ BeginRebuild("rest", "set_mode")
    /\ UNCHANGED topoLinks

\* The provider drops a link; no handler runs
ProviderDropsLink(l) ==
    /\ probe.fn = "none"
    /\ l \in topoLinks \cap wiring.cuts
    /\ topoLinks' = topoLinks \ {l}
    /\ UNCHANGED <<stats, running, probe, wiring, topoSwitches, topoDirty, flows, mode, G, adj,
                   datapaths, sw_all_ports, sw_link_ports, host_port, spChoice, sent, last>>

\* get_all_switch returns: the loop over the switches, up to the request of
\* get_all_link
GotSwitches(t) ==
    /\ probe.fn = "none"
    /\ running.at[t].pc = "get_all_switch"
    /\ Head(running.waiting) = t
    /\ G' = [nodes |-> G.nodes \cup topoSwitches, edges |-> G.edges]
    /\ running' = [running EXCEPT !.at[t] = [pc |-> "get_all_link", op |-> running.at[t].op,
                                             switches |-> topoSwitches],
                                  !.waiting = Append(Tail(running.waiting), t)]
    /\ UNCHANGED <<stats, probe, wiring, topoSwitches, topoLinks, topoDirty, flows, mode, adj,
                   datapaths, sw_all_ports, sw_link_ports, host_port, spChoice, sent, last>>

\* get_all_link returns: the loop over the links and the rest of the cycle
GotLinks(t) ==
    /\ probe.fn = "none"
    /\ running.at[t].pc = "get_all_link"
    /\ Head(running.waiting) = t
    /\ LET g2   == [nodes |-> G.nodes \cup LinkEnds(topoLinks),
                    edges |-> Overlay(G.edges, GraphOf({}, topoLinks, mode).edges)]
           adj2 == Overlay(adj, AdjOf(topoLinks))
           lp2  == MergePorts(sw_link_ports, LinkPortsOf(topoLinks))
       IN  /\ G' = g2
           /\ adj' = adj2
           /\ sw_link_ports' = lp2
           /\ running' = [at      |-> [running.at EXCEPT ![t] = Idle_pc],
                          waiting |-> Tail(running.waiting),
                          built   |-> running.built \cup
                                       {Build(g2, adj2, running.at[t].switches, topoLinks)}]
           /\ \E sp \in TieBreaks(g2) :
                 /\ spChoice' = [m \in Modes |-> [known |-> TRUE,
                                                  path |-> IF m = mode THEN sp ELSE EmptyFn]]
                 /\ IF graph_is_empty(g2)
                    THEN /\ host_port' = host_port
                         /\ sent' = <<>>
                         /\ flows' = flows
                         /\ last' = Handler(running.at[t].op, FALSE)
                    ELSE LET hp   == deduce_host_ports(g2, sw_all_ports, lp2)
                             msgs == CycleMessages(g2, adj2, hp, datapaths, sp)
                         IN  /\ host_port' = hp
                             /\ sent' = msgs
                             /\ flows' = Deliver(flows, msgs)
                             /\ last' = Handler(running.at[t].op, TRUE)
    /\ UNCHANGED <<stats, probe, wiring, topoSwitches, topoLinks, topoDirty, mode, datapaths,
                   sw_all_ports>>

InitThreads ==
    /\ Discovered(WiringCorner)
    /\ running = [at |-> [t \in Threads |-> Idle_pc], waiting |-> <<>>,
                  built |-> {Build(G, adj, topoSwitches, topoLinks)}]

NextThreads ==
    \/ \E l \in wiring.links : OnLinkAdd(l)
    \/ OnReinstall
    \/ \E m \in Modes : OnSetMode(m)
    \/ \E l \in wiring.links : ProviderDropsLink(l)
    \/ \E t \in Threads : GotSwitches(t)
    \/ \E t \in Threads : GotLinks(t)
    \/ RestAPI_topology
    \/ \E a \in wiring.sw, b \in wiring.sw : RestAPI_path(Digits(a), Digits(b))
    \/ Respond

SpecThreads == InitThreads /\ [][NextThreads]_vars

-----------------------------------------------------------------------------
(* The monitor thread, the replies to its requests, the datapath registry   *)
(* and the rebuild, on s1 and s2 with s2 leaving                            *)

WiringWatch ==
    [ sw    |-> {1, 2},
      ports |-> (1 :> {1, 2} @@ 2 :> {2}),
      links |-> { Link(1, 2, 2, 2) },
      flaky |-> {2},
      cuts  |-> {} ]

\* _request_stats: a port-counter and a rule-counter request
request_stats(dpid) == <<Request(dpid, "port_stats"), Request(dpid, "flow_stats")>>

\* Mutation: only the switches of the graph are polled.
PollTargets_graph == datapaths \cap G.nodes

\* for dp in list(self.datapaths.values())
PollTargets == datapaths

\* One round of _monitor_loop, up to hub.sleep(5)
MonitorRound ==
    /\ LET s == SortedSeq(PollTargets)
           f[i \in 0..Len(s)] == IF i = 0 THEN <<>> ELSE f[i-1] \o request_stats(s[i])
       IN  sent' = f[Len(s)]
    /\ pending' = pending \cup {<<sent'[i].to, sent'[i].kind>> : i \in 1..Len(sent')}
    /\ last' = Handler("monitor_loop", FALSE)
    /\ UNCHANGED <<port_stats, port_stats_prev, stats_timestamp, flow_stats, heard, running, probe,
                   wiring, topoSwitches, topoLinks, topoDirty, flows, mode, G, adj, datapaths,
                   sw_all_ports, sw_link_ports, host_port, spChoice>>

\* A switch answers a port-counter request: every port, all with the same reading
PortStatsReply(dpid) ==
    /\ <<dpid, "port_stats">> \in pending
    /\ pending' = pending \ {<<dpid, "port_stats">>}
    /\ \E c \in {Idle, Busy} :
          port_stats_reply(dpid, [p \in wiring.ports[dpid] |-> c], 2 * PollPeriod)
    /\ UNCHANGED heard

\* An entry of a rule-counter reply, no packet counted
FlowEntry(r) ==
    [priority |-> r.priority, match |-> r.match,
     duration_sec |-> 0, packet_count |-> 0, byte_count |-> 0]

\* _flow_stats_reply
flow_stats_reply(dpid, body) ==
    /\ dpid \in datapaths
    /\ flow_stats' = (dpid :> body) @@ flow_stats
    /\ sent' = <<>>
    /\ last' = Handler("flow_stats_reply", FALSE)
    /\ UNCHANGED <<port_stats, port_stats_prev, stats_timestamp, heard, running, probe,
                   wiring, topoSwitches, topoLinks, topoDirty, flows, mode, G, adj, datapaths,
                   sw_all_ports, sw_link_ports, host_port, spChoice>>

\* A switch answers a rule-counter request with the entries of its table
FlowStatsReply(dpid) ==
    /\ <<dpid, "flow_stats">> \in pending
    /\ pending' = pending \ {<<dpid, "flow_stats">>}
    /\ flow_stats_reply(dpid, {FlowEntry(r) : r \in flows[dpid]})

InitMonitor == Discovered(WiringWatch) /\ running = NoRebuild

NextMonitor ==
    \/ \E s \in Switches, st \in {"CONFIG", "MAIN", "DEAD"} : StateChange(s, st)
    \/ \E s \in Switches : SwitchLeave(s)
    \/ reinstall /\ UNCHANGED probe
    \/ MonitorRound
    \/ \E s \in Switches : PortStatsReply(s)
    \/ \E s \in Switches : FlowStatsReply(s)

SpecMonitor == InitMonitor /\ [][NextMonitor]_vars

-----------------------------------------------------------------------------
(* The replies alone, each one recorded in the history *)

MaxReplies == 3

Reply(dpid, body, timestamp) == [dpid |-> dpid, body |-> body, timestamp |-> timestamp]

RecordedReply(dpid, body, timestamp) ==
    /\ Len(heard) < MaxReplies
    /\ port_stats_reply(dpid, body, timestamp)
    /\ heard' = Append(heard, Reply(dpid, body, timestamp))
    /\ UNCHANGED pending

NextSamples ==
    \E s \in wiring.sw, t \in Times : \E body \in ReplyBodies(s) : RecordedReply(s, body, t)

SpecSamples == InitStats /\ [][NextSamples]_vars

-----------------------------------------------------------------------------
(* Vocabulary of the properties *)

HostSwitches == 1..NUM_HOSTS

\* The destination rules a table holds for the host address of d
DestRules(table, d) ==
    {r \in table : r.priority = PRIO_DEST /\ r.match.eth_type \in {ETH_IP, ETH_ARP}
                   /\ r.match.dst = ip_of(d)}

AllDestRules(table) == {r \in table : r.priority = PRIO_DEST}

\* The weight the specification gives the link u-v in mode m: 1 per hop, or
\* 1/bandwidth with the bandwidth of the static table (scaled by WeightScale)
SpecWeight(u, v, m) == IF m = "hops" THEN WeightScale ELSE WeightScale \div bw_of(u, v)

Unreachable == WeightScale * (NUM_HOSTS + 2)

\* Distance to d over the edges of g with the specification's weights, by
\* relaxation (Bellman-Ford), independent of the path enumeration of the model
RECURSIVE Relax(_, _, _, _)
Relax(g, m, D, k) ==
    IF k = 0 THEN D
    ELSE Relax(g, m,
               [n \in g.nodes |->
                   LET via == {SpecWeight(n, v, m) + D[v] : v \in Neighbors(g, n)}
                       best == IF via = {} THEN Unreachable ELSE Min(via)
                   IN  IF best < D[n] THEN best ELSE D[n]],
               k - 1)

DistTo(g, m, d) ==
    Relax(g, m, [n \in g.nodes |-> IF n = d THEN 0 ELSE Unreachable], Cardinality(g.nodes))

Connected(g, u, d) == DistTo(g, "hops", d)[u] < Unreachable

\* v is the first hop of some minimum-weight path from u to d
BestFirstHop(g, m, u, v, d) ==
    /\ v \in Neighbors(g, u)
    /\ DistTo(g, m, d)[u] < Unreachable
    /\ SpecWeight(u, v, m) + DistTo(g, m, d)[v] = DistTo(g, m, d)[u]

\* The weight of a path with the specification's weights
RECURSIVE SpecPathWeight(_, _)
SpecPathWeight(p, m) ==
    IF Len(p) < 2 THEN 0
    ELSE SpecWeight(p[1], p[2], m) + SpecPathWeight(Tail(p), m)

\* The paths from u to d that are optimal in mode m
OptimalPaths(g, m, u, d) ==
    {p \in SimplePaths(g, u, d) : SpecPathWeight(p, m) = DistTo(g, m, d)[u]}

\* Some port of a destination rule differs between two flow tables
PortChanged(before, after) ==
    \E r \in AllDestRules(before), q \in AllDestRules(after) :
        r.match = q.match /\ r.out # q.out

-----------------------------------------------------------------------------
(* C1: after a completed rebuild cycle, at every registered switch u of the *)
(* graph and for every host-bearing switch d # u that u can reach, the      *)
(* rules for 10.0.0.d exist and each outputs on adj[(u, v)] for a v that is *)
(* the first hop of a minimum-weight path from u to d under the weights of  *)
(* the active mode.                                                         *)
C1_FirstHopOfShortestPath ==
    last.done =>
        \A u \in G.nodes \cap datapaths, d \in G.nodes \cap HostSwitches :
            (u # d /\ Connected(G, u, d)) =>
                /\ DestRules(flows[u], d) # {}
                /\ \A r \in DestRules(flows[u], d) :
                      \E v \in Neighbors(G, u) :
                          /\ <<u, v>> \in DOMAIN adj
                          /\ r.out = adj[<<u, v>>]
                          /\ BestFirstHop(G, mode, u, v, d)

\* A cycle in inverse-bandwidth mode has installed at s2 the detour over s1
\* towards 10.0.0.5 although s5 is a neighbour of s2.
C1_Witness ==
    /\ last.done
    /\ mode = "distrak"
    /\ {1, 2, 5} \subseteq datapaths
    /\ undirected_key(2, 5) \in DOMAIN G.edges
    /\ <<2, 1>> \in DOMAIN adj
    /\ DestRules(flows[2], 5) # {}
    /\ \A r \in DestRules(flows[2], 5) : r.out = adj[<<2, 1>>]

-----------------------------------------------------------------------------
(* C2: the deduced host port of a switch is the only candidate (all ports   *)
(* minus link ports) when there is one, the numerically smallest candidate  *)
(* when there are several, and port 1 when there is none.                   *)
C2_HostPortDeduction ==
    (probe.fn = "deduce_host_ports" /\ probe.hp # EmptyFn) =>
        LET cand == probe.allp \ probe.linkp
            hp   == probe.hp[ProbeSwitch]
        IN  /\ DOMAIN probe.hp = {ProbeSwitch}
            /\ (\E c \in cand : cand = {c}) => cand = {hp}
            /\ Cardinality(cand) > 1 => (hp \in cand /\ \A c \in cand : hp <= c)
            /\ cand = {} => hp = 1

\* all = {1,2,3}, link = {3}: the candidates are {1,2} and port 1 is deduced.
C2_Witness ==
    /\ probe.fn = "deduce_host_ports"
    /\ probe.hp # EmptyFn
    /\ probe.allp = {1, 2, 3}
    /\ probe.linkp = {3}
    /\ probe.hp[ProbeSwitch] = 1

-----------------------------------------------------------------------------
(* C3: a reinstall that directly follows a completed rebuild cycle (nothing *)
(* changed in between: topology snapshot, port sets, registry, mode) leaves *)
(* every flow table as the first cycle left it and sends the same messages. *)
C3_ReinstallIdempotent ==
    [][ last'.again => (flows' = flows /\ sent' = sent) ]_vars

\* A repeated reinstall on the full triangle s8-s10-s11 in inverse-bandwidth
\* mode, where two minimum-weight paths tie between s8 and s10.
C3_Witness ==
    /\ last.again
    /\ last.op = "reinstall"
    /\ mode = "distrak"
    /\ datapaths = {8, 10, 11}
    /\ Cardinality(DOMAIN G.edges) = 3
    /\ Cardinality(MinPaths(G, 8, 10)) = 2
    /\ DestRules(flows[8], 10) # {}

-----------------------------------------------------------------------------
(* C4: a set_mode call that changes the mode, on tables left by a completed *)
(* cycle and a graph whose switches are all registered, changes the port of *)
(* at least one destination rule whenever for some switch u and some        *)
(* host-bearing destination d no path from u to d is optimal both in hop    *)
(* count and in inverse bandwidth.                                          *)
C4_ModeChangeMovesAPort ==
    [][ ( /\ last.done
          /\ last'.op = "set_mode" /\ last'.done
          /\ G'.nodes \subseteq datapaths
          /\ \E u \in G'.nodes, d \in G'.nodes \cap HostSwitches :
                /\ u # d
                /\ Connected(G', u, d)
                /\ OptimalPaths(G', "hops", u, d) \cap OptimalPaths(G', "distrak", u, d) = {} )
        => \E s \in datapaths : PortChanged(flows[s], flows'[s]) ]_vars

\* set_mode has just switched the full triangle s1-s2-s5 to hop count: s2 now
\* reaches 10.0.0.5 over the direct link, not over the detour it used before.
C4_Witness ==
    /\ last.op = "set_mode" /\ last.done
    /\ mode = "hops"
    /\ G.nodes = {1, 2, 5} /\ datapaths = {1, 2, 5}
    /\ OptimalPaths(G, "hops", 2, 5) = {<<2, 5>>}
    /\ OptimalPaths(G, "distrak", 2, 5) = {<<2, 1, 5>>}
    /\ DestRules(flows[2], 5) # {}
    /\ \A r \in DestRules(flows[2], 5) : r.out = adj[<<2, 5>>]

-----------------------------------------------------------------------------
\* The three forms of the identifier of switch i in a path query
Names(i) == {Digits(i), SName(i), HostAddr(i)}

\* The destination-rule messages of the last handler to switch u for 10.0.0.d
SentFor(u, d) ==
    {i \in 1..Len(sent) : /\ sent[i].to = u /\ sent[i].kind = "add"
                          /\ sent[i].rule.priority = PRIO_DEST
                          /\ sent[i].rule.match.dst = ip_of(d)}

(* C5: when switches u and d of the graph are in different components, a    *)
(* path query for (u, d), in any form of the identifiers, is answered 404;  *)
(* a completed cycle has sent u no rule for 10.0.0.d and a registered u     *)
(* holds none; and that cycle has sent every registered switch the IPv4 and *)
(* the ARP rule of every host-bearing destination it can reach.             *)
C5_NoPath ==
    /\ probe.fn = "path" =>
          \A u \in G.nodes, d \in G.nodes :
              (~Connected(G, u, d) /\ probe.src \in Names(u) /\ probe.dst \in Names(d))
                  => probe.resp.status = 404
    /\ last.done =>
          \A u \in G.nodes, d \in G.nodes \cap HostSwitches :
              IF Connected(G, u, d)
              THEN u \in datapaths =>
                      /\ {sent[i].rule.match.eth_type : i \in SentFor(u, d)} = {ETH_IP, ETH_ARP}
                      /\ {r.match.eth_type : r \in DestRules(flows[u], d)} = {ETH_IP, ETH_ARP}
              ELSE /\ SentFor(u, d) = {}
                   /\ u \in datapaths => DestRules(flows[u], d) = {}

\* s1-s2 linked, s5 on its own: the query s2 -> 10.0.0.5 is answered 404 after
\* a cycle that gave s2 no rule for 10.0.0.5 but its rules for 10.0.0.1 and
\* 10.0.0.2, and s5 its rule for 10.0.0.5.
C5_Witness ==
    /\ probe.fn = "path"
    /\ probe.src = SName(2) /\ probe.dst = HostAddr(5)
    /\ probe.resp.status = 404
    /\ last.done
    /\ G.nodes = {1, 2, 5} /\ DOMAIN G.edges = {undirected_key(1, 2)}
    /\ DestRules(flows[2], 5) = {}
    /\ DestRules(flows[2], 1) # {} /\ DestRules(flows[2], 2) # {}
    /\ DestRules(flows[5], 5) # {}

-----------------------------------------------------------------------------
(* Vocabulary of the statistics properties *)

\* The links get_link_stats goes over: the keys (u, v) of self.adj with u < v
LinkKeys == {k \in DOMAIN adj : k[1] < k[2]}

HasCur(s, p) == SampleOf(port_stats, s, p) # NoSample

HasPrev(s, p) == SampleOf(port_stats_prev, s, p) # NoSample

\* Current minus previous sample of a counter (both samples exist)
Delta(s, p, name) == port_stats[s][p][name] - port_stats_prev[s][p][name]

Abs(x) == IF x < 0 THEN -x ELSE x

\* The rows of the response to GET /stats/links being served
Rows == probe.resp.body

\* Reported metrics are in hundredths: 100 is 1.00 Mbps or 1.00 %
Hundredths == 100

-----------------------------------------------------------------------------
(* C6, as claimed: on a link whose two ports each have a current sample and *)
(* no previous sample, get_link_stats reports no row, or a row with zero    *)
(* throughput, zero utilization and zero packet-loss rate.                  *)
C6_FirstPollZero ==
    probe.fn = "stats_links" =>
        \A k \in LinkKeys :
            LET u == k[1]
                v == k[2]
            IN  ( /\ HasCur(u, adj[<<u, v>>]) /\ ~HasPrev(u, adj[<<u, v>>])
                  /\ HasCur(v, adj[<<v, u>>]) /\ ~HasPrev(v, adj[<<v, u>>]) )
                => \/ k \notin DOMAIN Rows
                   \/ /\ Rows[k].throughput_mbps = 0
                      /\ Rows[k].utilization = 0
                      /\ Rows[k].packet_loss_rate = 0

\* One reply of s1 (3 packets and 1,250,000 bytes sent on port 2 since the
\* switch started) and one of s2 (2 packets received on port 2): the row of
\* the link reports a loss rate of 33.33 % and a throughput above zero.
C6_Witness ==
    /\ probe.fn = "stats_links"
    /\ ~HasPrev(1, 2) /\ ~HasPrev(2, 2)
    /\ HasCur(1, 2) /\ port_stats[1][2].tx_packets = 3 /\ port_stats[1][2].tx_bytes = 1250000
    /\ HasCur(2, 2) /\ port_stats[2][2].rx_packets = 2
    /\ <<1, 2>> \in DOMAIN Rows
    /\ Rows[<<1, 2>>].packet_loss_rate = 3333
    /\ Rows[<<1, 2>>].throughput_mbps > 0

-----------------------------------------------------------------------------
\* The rows of links whose transmitting end u has a previous and a current
\* sample taken dt > 0 apart
TimedRows ==
    {k \in DOMAIN Rows : /\ HasPrev(k[1], adj[k])
                         /\ Delta(k[1], adj[k], "timestamp") > 0}

(* C7, as claimed: the reported throughput is 8 * delta tx_bytes /          *)
(* (dt * 1e6) and the reported utilization is the reported throughput /     *)
(* bandwidth * 100.                                                         *)
C7_ExactFormula ==
    probe.fn = "stats_links" =>
        \A k \in TimedRows :
            LET dt    == Delta(k[1], adj[k], "timestamp")
                bytes == Delta(k[1], adj[k], "tx_bytes")
                bw    == bw_of(k[1], k[2])
            IN  /\ Rows[k].throughput_mbps * dt * 1000000 = Hundredths * 8 * bytes
                /\ Rows[k].utilization * bw = Rows[k].throughput_mbps * 100

(* C7, amended: a link whose two ports have a current sample has a row;     *)
(* when the samples of its lower-numbered end are dt > 0 apart, the         *)
(* reported throughput is 8 * delta tx_bytes / (dt * 1e6) rounded to two    *)
(* decimals and the reported utilization is 8 * delta tx_bytes /            *)
(* (dt * 1e6) / bandwidth * 100 rounded to two decimals (each within 0.005  *)
(* of the exact value); 1,250,000 bytes in 5 s on the 50 Mbps link are      *)
(* reported as 2.00 Mbps and 4.00 %.                                        *)
C7_RoundedFormula ==
    probe.fn = "stats_links" =>
        /\ \A k \in LinkKeys :
              (HasCur(k[1], adj[k]) /\ HasCur(k[2], adj[<<k[2], k[1]>>])) <=> k \in DOMAIN Rows
        /\ \A k \in TimedRows :
              LET dt    == Delta(k[1], adj[k], "timestamp")
                  bytes == Delta(k[1], adj[k], "tx_bytes")
                  bw    == bw_of(k[1], k[2])
              IN  /\ 2 * Abs(Rows[k].throughput_mbps * dt * 1000000 - Hundredths * 8 * bytes)
                        <= dt * 1000000
                  /\ 2 * Abs(Rows[k].utilization * dt * 10000 * bw - Hundredths * 8 * bytes)
                        <= dt * 10000 * bw
                  /\ (bytes = 1250000 /\ dt = 5) => Rows[k].throughput_mbps = 200
                  /\ (bytes = 1250000 /\ dt = 5 /\ bw = 50) => Rows[k].utilization = 400

\* s1 sent 1,250,000 bytes on the 50 Mbps link to s2 between two samples 5 s
\* apart: 2.00 Mbps and 4.00 % are reported.
C7_Witness ==
    /\ probe.fn = "stats_links"
    /\ <<1, 2>> \in TimedRows
    /\ Delta(1, 2, "tx_bytes") = 1250000
    /\ Delta(1, 2, "timestamp") = 5
    /\ Rows[<<1, 2>>].bw_mbps = 50
    /\ Rows[<<1, 2>>].throughput_mbps = 200
    /\ Rows[<<1, 2>>].utilization = 400

-----------------------------------------------------------------------------
\* The rows of links whose two ports have a previous and a current sample
PairedRows ==
    {k \in DOMAIN Rows : HasPrev(k[1], adj[k]) /\ HasPrev(k[2], adj[<<k[2], k[1]>>])}

\* What the specification calls the loss on the link k in the interval
SpecLoss(k) ==
    LET sent_pkts == Delta(k[1], adj[k], "tx_packets")
        rcvd_pkts == Delta(k[2], adj[<<k[2], k[1]>>], "rx_packets")
    IN  IF sent_pkts - rcvd_pkts > 0 THEN sent_pkts - rcvd_pkts ELSE 0

NonDecreasing(k) ==
    /\ Delta(k[1], adj[k], "tx_packets") >= 0
    /\ Delta(k[2], adj[<<k[2], k[1]>>], "rx_packets") >= 0

(* C8, as claimed: with previous and current samples at both ends, the      *)
(* reported loss rate is loss / delta tx_packets * 100 with loss = max(0,   *)
(* delta tx_packets at A - delta rx_packets at B), 0 when A sent nothing,   *)
(* and within 0..100 when the counters did not decrease.                    *)
C8_ExactLossRate ==
    probe.fn = "stats_links" =>
        \A k \in PairedRows :
            LET sent_pkts == Delta(k[1], adj[k], "tx_packets")
            IN  /\ sent_pkts > 0 =>
                      Rows[k].packet_loss_rate * sent_pkts = Hundredths * 100 * SpecLoss(k)
                /\ sent_pkts = 0 => Rows[k].packet_loss_rate = 0
                /\ NonDecreasing(k) =>
                      (0 <= Rows[k].packet_loss_rate
                          /\ Rows[k].packet_loss_rate <= 100 * Hundredths)

(* C8, amended: with previous and current samples at both ends, when the    *)
(* samples of A are dt > 0 apart and A sent packets, the reported loss rate *)
(* is max(0, delta tx_packets at A - delta rx_packets at B) / delta         *)
(* tx_packets at A * 100 rounded to two decimals; it is 0 when dt <= 0 or   *)
(* A sent nothing; with non-decreasing counters it is within 0..100.        *)
C8_RoundedLossRate ==
    probe.fn = "stats_links" =>
        \A k \in PairedRows :
            LET sent_pkts == Delta(k[1], adj[k], "tx_packets")
                dt        == Delta(k[1], adj[k], "timestamp")
            IN  /\ (dt > 0 /\ sent_pkts > 0) =>
                      2 * Abs(Rows[k].packet_loss_rate * sent_pkts
                                  - Hundredths * 100 * SpecLoss(k)) <= sent_pkts
                /\ (dt <= 0 \/ sent_pkts <= 0) => Rows[k].packet_loss_rate = 0
                /\ NonDecreasing(k) =>
                      (0 <= Rows[k].packet_loss_rate
                          /\ Rows[k].packet_loss_rate <= 100 * Hundredths)

\* Between two samples 5 s apart s1 sent 3 packets and s2 received 2: a loss
\* of 1 packet in 3 is reported as 33.33 %.
C8_Witness ==
    /\ probe.fn = "stats_links"
    /\ <<1, 2>> \in PairedRows
    /\ Delta(1, 2, "timestamp") = 5
    /\ Delta(1, 2, "tx_packets") = 3
    /\ Delta(2, 2, "rx_packets") = 2
    /\ Rows[<<1, 2>>].packet_loss_rate = 3333

-----------------------------------------------------------------------------
\* The handlers that start a rebuild cycle
Triggers == {"port_desc_reply", "switch_enter", "link_add", "set_mode", "reinstall"}

\* This step is a rebuild trigger (set_mode is one when it changes the mode)
TriggerFires ==
    /\ last'.op \in Triggers
    /\ last'.op = "set_mode" => mode' # mode

(* C9: a rebuild trigger that finds the topology provider without switches  *)
(* ends without a completed cycle: it sends no message at all, every flow   *)
(* table is as before, and so are the host ports.                           *)
C9_EmptyGraphAbort ==
    [][ (TriggerFires /\ topoSwitches' = {})
            => (sent' = <<>> /\ flows' = flows /\ host_port' = host_port /\ ~last'.done) ]_vars

\* The provider has lost its only switch, s1, which is still registered and
\* holds its base and destination rules; a reinstall has just aborted.
C9_Witness ==
    /\ last.op = "reinstall" /\ ~last.done
    /\ topoSwitches = {}
    /\ G.nodes = {}
    /\ sent = <<>>
    /\ 1 \in datapaths
    /\ BaseRules \subseteq flows[1]
    /\ DestRules(flows[1], 1) # {}

-----------------------------------------------------------------------------
\* The messages of step (3) of a cycle: three per registered switch
WipeLen == 3 * Cardinality(datapaths)

(* C10: in every completed cycle the messages start with, for each          *)
(* registered switch once, delete-all, the LLDP rule and the table-miss     *)
(* rule in this order; no destination rule is among them and only           *)
(* destination rules follow; delivered in order to the tables as they were  *)
(* before the cycle, these first messages leave every registered switch     *)
(* with exactly the two base rules.                                         *)
C10_WipeThenInstall ==
    [][ last'.done =>
          LET n    == 3 * Cardinality(datapaths')
              wipe == SubSeq(sent', 1, n)
          IN  /\ Len(sent') >= n
              /\ \A s \in datapaths' :
                    /\ \E i \in 1..n : /\ i % 3 = 1
                                       /\ sent'[i] = FlowDeleteAll(s)
                                       /\ sent'[i + 1] = FlowAdd(s, LldpRule)
                                       /\ sent'[i + 2] = FlowAdd(s, MissRule)
                    /\ Cardinality({i \in 1..n : sent'[i].to = s}) = 3
                    /\ Deliver(flows, wipe)[s] = BaseRules
              /\ \A i \in 1..n : sent'[i].rule.priority # PRIO_DEST
              /\ \A i \in (n + 1)..Len(sent') :
                    sent'[i].kind = "add" /\ sent'[i].rule.priority = PRIO_DEST ]_vars

\* A cycle on the full triangle s1-s2-s5 with all three registered: nine
\* wipe messages, then the destination rules.
C10_Witness ==
    /\ last.done
    /\ datapaths = {1, 2, 5}
    /\ G.nodes = {1, 2, 5}
    /\ Len(sent) > WipeLen
    /\ sent[1] = FlowDeleteAll(1)
    /\ sent[WipeLen] = FlowAdd(5, MissRule)
    /\ sent[WipeLen + 1].rule.priority = PRIO_DEST

-----------------------------------------------------------------------------
\* Every switch of g reaches every other one
ConnectedGraph(g) == \A u \in g.nodes, d \in g.nodes : Connected(g, u, d)

(* C11: after a completed cycle on a connected graph whose switches are all *)
(* host-bearing (1..14) and all registered, every switch of the graph       *)
(* holds, for each switch d of the graph, exactly one IPv4 rule and exactly *)
(* one ARP rule for 10.0.0.d, both with the same output port, and no other  *)
(* destination rule: 2 * N rules per switch, N * N * 2 in all.              *)
C11_FullProactiveTable ==
    ( /\ last.done
      /\ ConnectedGraph(G)
      /\ G.nodes \subseteq HostSwitches
      /\ G.nodes \subseteq datapaths )
    => \A u \in G.nodes :
          /\ \A d \in G.nodes :
                /\ Cardinality({r \in DestRules(flows[u], d) : r.match.eth_type = ETH_IP}) = 1
                /\ Cardinality({r \in DestRules(flows[u], d) : r.match.eth_type = ETH_ARP}) = 1
                /\ Cardinality({r.out : r \in DestRules(flows[u], d)}) = 1
          /\ Cardinality(AllDestRules(flows[u])) = 2 * Cardinality(G.nodes)

\* The full triangle s1-s2-s5, all registered: six destination rules per
\* switch, eighteen in all.
C11_Witness ==
    /\ last.done
    /\ G.nodes = {1, 2, 5} /\ datapaths = {1, 2, 5}
    /\ ConnectedGraph(G)
    /\ \A u \in G.nodes : Cardinality(AllDestRules(flows[u])) = 6

-----------------------------------------------------------------------------
\* The host port the specification deduces for d from the port sets the
\* cycle worked on: the smallest port that is on no link, port 1 if none
SpecHostPort(d) ==
    LET cand == Get(sw_all_ports, d, {}) \ Get(sw_link_ports, d, {})
    IN  IF cand = {} THEN 1 ELSE CHOOSE p \in cand : \A c \in cand : p <= c

(* C12: after a completed cycle, every registered switch d of the graph     *)
(* holds the IPv4 and the ARP rule for 10.0.0.d, and both output on the     *)
(* host port of d deduced in that cycle.                                    *)
C12_OwnSwitchUsesHostPort ==
    last.done =>
        \A d \in G.nodes \cap datapaths :
            /\ {r.match.eth_type : r \in DestRules(flows[d], d)} = {ETH_IP, ETH_ARP}
            /\ \A r \in DestRules(flows[d], d) : r.out = SpecHostPort(d)
            /\ host_port[d] = SpecHostPort(d)

\* s5 has ports {1,2,3} with links on 1 and 2: its own two rules output on 3.
C12_Witness ==
    /\ last.done
    /\ 5 \in G.nodes \cap datapaths
    /\ Get(sw_all_ports, 5, {}) = {1, 2, 3} /\ Get(sw_link_ports, 5, {}) = {1, 2}
    /\ {r.out : r \in DestRules(flows[5], 5)} = {3}

-----------------------------------------------------------------------------
\* The switch pairs the links of a snapshot join
SnapshotPairs(lks) == {{l.src.dpid, l.dst.dpid} : l \in lks}

\* (u, v) -> p is an entry of the snapshot: some link of it leaves u for v
\* through port p of u, or arrives at u from v through port p of u
AdjEntryOf(lks, u, v, p) ==
    \E l \in lks : \/ (l.src = Port(u, p) /\ l.dst.dpid = v)
                   \/ (l.dst = Port(u, p) /\ l.src.dpid = v)

-----------------------------------------------------------------------------
\* The entries of the static table for the unordered pair {u, v}
TableEntries(u, v) == {t \in DOMAIN link_bw : {t[1], t[2]} = {u, v}}

(* C14: every edge {u,v} of the graph carries the bandwidth the static      *)
(* table gives the unordered pair {u,v}, or 10 when the table has no entry  *)
(* for it, and the weight 1 in hop-count mode or 1/bandwidth in             *)
(* inverse-bandwidth mode (weights are scaled by WeightScale).              *)
C14_EdgeWeights ==
    \A k \in DOMAIN G.edges :
        LET e == G.edges[k]
        IN  /\ \A t \in TableEntries(k[1], k[2]) : e.bw = link_bw[t]
            /\ TableEntries(k[1], k[2]) = {} => e.bw = 10
            /\ mode = "hops" => e.weight = WeightScale
            /\ mode = "distrak" => e.weight * e.bw = WeightScale

\* Inverse-bandwidth mode on the triangle: s1-s2 is in the table (50 Mbps,
\* weight 1/50), s2-s5 is not (10 Mbps, weight 1/10).
C14_Witness ==
    /\ mode = "distrak"
    /\ last.done
    /\ {<<1, 2>>, <<2, 5>>} \subseteq DOMAIN G.edges
    /\ G.edges[<<1, 2>>].bw = 50 /\ G.edges[<<1, 2>>].weight * 50 = WeightScale
    /\ G.edges[<<2, 5>>].bw = 10 /\ G.edges[<<2, 5>>].weight * 10 = WeightScale
    /\ <<2, 5>> \notin DOMAIN link_bw

-----------------------------------------------------------------------------
(* C15: a set-mode request whose value is neither 'hops' nor 'distrak' is   *)
(* answered 400, and the step leaves the mode, the graph, the port maps,    *)
(* the host ports and every flow table as they were and sends no message    *)
(* (the engine's set_mode is not entered).                                  *)
C15_InvalidModeRejected ==
    [][ ( /\ probe.fn = "none"
          /\ probe'.fn = "set_mode"
          /\ probe'.value \notin {"hops", "distrak"} )
        => /\ probe'.resp.status = 400
           /\ mode' = mode
           /\ G' = G /\ adj' = adj /\ sw_link_ports' = sw_link_ports
           /\ sw_all_ports' = sw_all_ports /\ host_port' = host_port
           /\ flows' = flows
           /\ sent' = sent /\ last' = last
      ]_vars

\* 'ecmp' was submitted in hop-count mode to a controller that has installed
\* destination rules, and was answered 400.
C15_Witness ==
    /\ probe.fn = "set_mode"
    /\ probe.value = "ecmp"
    /\ probe.resp.status = 400
    /\ mode = "hops"
    /\ \E s \in datapaths : AllDestRules(flows[s]) # {}

-----------------------------------------------------------------------------
\* A parameter that is present and is neither a decimal switch id, nor
\* 's<id>', nor a dotted 10.0.0.X address
Malformed(x) ==
    /\ x.form \notin {"digits", "s", "missing"}
    /\ ~(x.form = "quad" /\ x.net = <<10, 0, 0>>)

(* C16: a path query whose src or dst is a malformed node identifier is     *)
(* answered with a client-error status (400..499).                          *)
C16_MalformedIdClientError ==
    ( /\ probe.fn = "path"
      /\ Malformed(probe.src) \/ Malformed(probe.dst) )
    => probe.resp.status \in 400..499

\* src is free text, dst is the decimal id of a switch of the graph: the
\* answer is 500 with the text of the ValueError.
C16_Witness ==
    /\ probe.fn = "path"
    /\ probe.src = Junk
    /\ probe.dst.form = "digits" /\ probe.dst.n \in G.nodes
    /\ probe.resp.status = 500
    /\ probe.resp.body = [error |-> "formato de nodo no valido"]

-----------------------------------------------------------------------------
\* The replies of switch s that held port p, oldest first
RepliesWith(s, p) == SelectSeq(heard, LAMBDA r : r.dpid = s /\ p \in DOMAIN r.body)

\* The sample of port p a reply carries
SampleIn(r, p) == Sample(r.body[p], r.timestamp)

(* C17: for every switch and every port that appeared in its replies, the   *)
(* current sample is the one of the most recent reply that held the port    *)
(* and the previous sample is the one of the reply that held it before      *)
(* that; a port that appeared in one reply only has no previous sample.     *)
C17_SampleRetention ==
    \A s \in wiring.sw : \A p \in wiring.ports[s] :
        LET rs == RepliesWith(s, p)
            n  == Len(rs)
        IN  /\ n >= 1 => /\ p \in DOMAIN Get(port_stats, s, EmptyFn)
                         /\ port_stats[s][p] = SampleIn(rs[n], p)
            /\ n >= 2 => /\ p \in DOMAIN Get(port_stats_prev, s, EmptyFn)
                         /\ port_stats_prev[s][p] = SampleIn(rs[n - 1], p)
            /\ n = 1 => p \notin DOMAIN Get(port_stats_prev, s, EmptyFn)

\* Three replies of s1: port 2 was in all three with three different
\* samples, port 1 in the last one only.
C17_Witness ==
    /\ Len(heard) = 3
    /\ \A i \in 1..3 : heard[i].dpid = 1
    /\ Len(RepliesWith(1, 1)) = 1 /\ 1 \in DOMAIN heard[3].body
    /\ SampleIn(heard[1], 2) # SampleIn(heard[2], 2)
    /\ SampleIn(heard[2], 2) # SampleIn(heard[3], 2)
    /\ port_stats_prev[1][2] = SampleIn(heard[2], 2)
    /\ 1 \notin DOMAIN port_stats_prev[1]

-----------------------------------------------------------------------------
(* C18: get_link_stats reports a throughput, a utilization or a loss rate   *)
(* other than zero for a link only when both of its ports have a previous   *)
(* sample (and a current one); if either port lacks a previous sample the   *)
(* link has no row or its three metrics are zero.                           *)
C18_MetricsNeedBothPrevious ==
    probe.fn = "stats_links" =>
        \A k \in DOMAIN Rows :
            ( \/ Rows[k].throughput_mbps # 0
              \/ Rows[k].utilization # 0
              \/ Rows[k].packet_loss_rate # 0 )
            => /\ HasCur(k[1], adj[<<k[1], k[2]>>]) /\ HasPrev(k[1], adj[<<k[1], k[2]>>])
               /\ HasCur(k[2], adj[<<k[2], k[1]>>]) /\ HasPrev(k[2], adj[<<k[2], k[1]>>])

\* s1 has two samples of port 2, 3 packets sent in between; s2 has a single
\* sample of port 2, 2 packets received since the switch started: the row
\* reports a loss rate of 33.33 %, computed from the raw counter of s2.
C18_Witness ==
    /\ probe.fn = "stats_links"
    /\ HasCur(1, 2) /\ HasPrev(1, 2)
    /\ Delta(1, 2, "timestamp") > 0 /\ Delta(1, 2, "tx_packets") = 3
    /\ HasCur(2, 2) /\ ~HasPrev(2, 2)
    /\ port_stats[2][2].rx_packets = 2
    /\ <<1, 2>> \in DOMAIN Rows
    /\ Rows[<<1, 2>>].packet_loss_rate = 3333

-----------------------------------------------------------------------------
(* C19: the response to GET /stats/links holds at most one row for each     *)
(* pair of linked switches, and in every row src is lower than dst.         *)
C19_OneRowPerLink ==
    probe.fn = "stats_links" =>
        /\ \A k \in DOMAIN Rows : Rows[k].src < Rows[k].dst
        /\ \A k1 \in DOMAIN Rows, k2 \in DOMAIN Rows :
              {Rows[k1].src, Rows[k1].dst} = {Rows[k2].src, Rows[k2].dst} => k1 = k2

\* The full triangle s1-s2-s5, every switch polled: the port map has six
\* entries and the response three rows.
C19_Witness ==
    /\ probe.fn = "stats_links"
    /\ Cardinality(DOMAIN adj) = 6
    /\ {<<Rows[k].src, Rows[k].dst>> : k \in DOMAIN Rows} = {<<1, 2>>, <<1, 5>>, <<2, 5>>}

-----------------------------------------------------------------------------
\* The rules of a table that forward to a host address, and the base rules
ForwardingRules(table) == {r \in table : r.match.eth_type \in {ETH_IP, ETH_ARP}}

DiscoveryRules(table) == {r \in table : r.match.eth_type = ETH_LLDP}

TableMissRules(table) == {r \in table : r.match.eth_type = ETH_ANY}

(* C20, as claimed: all destination rules have one priority, and it is      *)
(* strictly above the priority of both base rules.                          *)
C20_AboveBothBaseRules ==
    \A s \in DOMAIN flows : \A r \in ForwardingRules(flows[s]) :
        /\ \A q \in ForwardingRules(flows[s]) : q.priority = r.priority
        /\ \A b \in DiscoveryRules(flows[s]) \cup TableMissRules(flows[s]) :
              r.priority > b.priority

(* C20, as the code has it: every destination rule has priority 100, above  *)
(* the table-miss rule (0) and below the discovery rule (500).              *)
C20_BetweenBaseRules ==
    \A s \in DOMAIN flows : \A r \in ForwardingRules(flows[s]) :
        /\ r.priority = 100
        /\ \A b \in TableMissRules(flows[s]) : b.priority = 0 /\ r.priority > b.priority
        /\ \A b \in DiscoveryRules(flows[s]) : b.priority = 500 /\ r.priority < b.priority

\* A table with both base rules and the IPv4 and ARP rules of a destination
C20_Witness ==
    \E s \in DOMAIN flows :
        /\ DiscoveryRules(flows[s]) # {} /\ TableMissRules(flows[s]) # {}
        /\ \E r \in ForwardingRules(flows[s]), q \in ForwardingRules(flows[s]) :
              /\ r.match.eth_type = ETH_IP /\ q.match.eth_type = ETH_ARP
              /\ r.priority = 100 /\ q.priority = 100

-----------------------------------------------------------------------------
(* C21: the response to a path query whose src names switch i and whose dst *)
(* names switch j, each in any of the three forms, is the response every    *)
(* other choice of forms for i and j gets, and it reports src i and dst j   *)
(* when it is a path.                                                       *)
C21_IdentifierForms ==
    \A i \in QueryIds, j \in QueryIds :
        ( /\ probe.fn = "path"
          /\ probe.src \in Names(i)
          /\ probe.dst \in Names(j) )
        => /\ \A a \in Names(i), b \in Names(j) : path_response(a, b) = probe.resp
           /\ probe.resp.status = 200 => (probe.resp.body.src = i /\ probe.resp.body.dst = j)

\* '10.0.0.1' to 's5' answered with a path of at least one hop from 1 to 5
C21_Witness ==
    /\ probe.fn = "path"
    /\ probe.src = HostAddr(1)
    /\ probe.dst = SName(5)
    /\ probe.resp.status = 200
    /\ probe.resp.body.hops >= 1
    /\ probe.resp.body.path[1] = 1

-----------------------------------------------------------------------------
(* C22: the graph a read query reports is the complete graph of some        *)
(* finished build: the nodes and links of a topology dump, and the node     *)
(* list of a path lookup that did not find its endpoints.                   *)
C22_ReadsSeeFinishedBuild ==
    /\ probe.fn = "topology" =>
          \E b \in running.built : /\ probe.resp.body.nodes = b.G.nodes
                                   /\ probe.resp.body.links = b.G.edges
    /\ (probe.fn = "path" /\ probe.resp.status = 404 /\ "nodes" \in DOMAIN probe.resp.body) =>
          \E b \in running.built : probe.resp.body.nodes = b.G.nodes

\* While the event loop waits in get_all_switch for a rebuild after a link
\* came back, a topology dump reports no node at all; every finished build
\* has the three switches.
C22_Witness ==
    /\ probe.fn = "topology"
    /\ running.at["events"].pc = "get_all_switch"
    /\ probe.resp.body.nodes = {}
    /\ \A b \in running.built : b.G.nodes = {1, 2, 5}

-----------------------------------------------------------------------------
\* Thread t is inside _rebuild_graph_and_push
Rebuilding(t) == running.at[t].pc # "idle"

(* C23: two rebuild cycles are never in progress at once, so every finished *)
(* build holds the links of the snapshot it was given and no other.         *)
C23_NoInterleaving ==
    /\ ~(Rebuilding("events") /\ Rebuilding("rest"))
    /\ \A b \in running.built :
          {{k[1], k[2]} : k \in DOMAIN b.G.edges} = SnapshotPairs(b.links)

\* No rebuild is in progress and the last cycle has installed rules, yet a
\* finished build holds the link s2-s5 that its own snapshot did not have:
\* the graph in use still has it although the provider has dropped it.
C23_Witness ==
    /\ ~Rebuilding("events") /\ ~Rebuilding("rest")
    /\ last.done
    /\ Link(2, 3, 5, 2) \notin topoLinks
    /\ <<2, 5>> \in DOMAIN G.edges
    /\ \E b \in running.built : /\ b.G = G
                                /\ Link(2, 3, 5, 2) \notin b.links
                                /\ <<2, 5>> \in DOMAIN b.G.edges

-----------------------------------------------------------------------------
(* C24: a set_mode with the active mode sends nothing and leaves the mode,  *)
(* the graph, the port map, the host ports and every flow table as they     *)
(* were; a set_mode with the other mode rebuilds the graph from the         *)
(* provider's snapshot and, unless the snapshot has no switch, runs the     *)
(* cycle to its end: wipe and installation on the new graph.                *)
C24_SetModeRebuildsOnChange ==
    [][ last'.op = "set_mode" =>
          /\ mode' = mode =>
                /\ sent' = <<>> /\ ~last'.done
                /\ G' = G /\ adj' = adj /\ sw_link_ports' = sw_link_ports
                /\ host_port' = host_port /\ flows' = flows
          /\ mode' # mode =>
                /\ G'.nodes = topoSwitches
                /\ \A k \in DOMAIN G'.edges :
                      G'.edges[k].weight = (IF mode' = "hops" THEN WeightScale
                                            ELSE WeightScale \div G'.edges[k].bw)
                /\ last'.done = (topoSwitches # {})
                /\ topoSwitches # {} =>
                      /\ DOMAIN host_port' = topoSwitches
                      /\ Len(sent') >= 3 * Cardinality(datapaths)
                      /\ flows' = Deliver(flows, sent')
      ]_vars

\* set_mode('hops') in hop-count mode on a controller that has installed
\* destination rules: nothing was sent and no cycle ran.
C24_Witness ==
    /\ last.op = "set_mode"
    /\ ~last.done
    /\ sent = <<>>
    /\ mode = "hops"
    /\ G.nodes # {}
    /\ \E s \in datapaths : AllDestRules(flows[s]) # {}

-----------------------------------------------------------------------------
(* C25: a step that changes the graph, the port map or the host ports is a  *)
(* step of a rebuild trigger; a step that changes the current or previous   *)
(* counter samples is a step of the port-counter reply handler; a           *)
(* port-counter or rule-counter reply leaves graph, port map, host ports    *)
(* and mode as they were; a rebuild leaves the counter samples as they      *)
(* were.                                                                    *)
C25_SingleWriter ==
    [][ /\ (G' # G \/ adj' # adj \/ host_port' # host_port) => last'.op \in Triggers
        /\ (port_stats' # port_stats \/ port_stats_prev' # port_stats_prev)
              => last'.op = "port_stats_reply"
        /\ last'.op \in {"port_stats_reply", "flow_stats_reply"}
              => (G' = G /\ adj' = adj /\ host_port' = host_port /\ mode' = mode)
        /\ last'.op \in Triggers
              => (port_stats' = port_stats /\ port_stats_prev' = port_stats_prev)
      ]_vars

\* A reinstall has completed a cycle on a controller that holds a current and
\* a previous sample of s1 and the rule counters of s1.
C25_Witness ==
    /\ last.op = "reinstall" /\ last.done
    /\ 1 \in DOMAIN port_stats /\ 2 \in DOMAIN port_stats[1]
    /\ 1 \in DOMAIN port_stats_prev /\ 2 \in DOMAIN port_stats_prev[1]
    /\ 1 \in DOMAIN flow_stats /\ flow_stats[1] # {}

-----------------------------------------------------------------------------
\* The requests of kind what that the last handler sent to switch s
RequestsTo(msgs, s, what) == {i \in 1..Len(msgs) : msgs[i].to = s /\ msgs[i].kind = what}

\* The samples the controller holds of switch s
SamplesOf(ps, prev, s) == <<Get(ps, s, EmptyFn), Get(prev, s, EmptyFn)>>

(* C26: a poll round can start in every state, whatever requests are still  *)
(* unanswered; it sends one port-counter and one rule-counter request to    *)
(* every switch of the datapath registry and nothing else, whether or not   *)
(* the switch is in the graph, and changes no sample.  A port-counter reply *)
(* changes the samples of the switch that replied only: a switch whose      *)
(* request is still unanswered keeps the samples it had.                    *)
C26_Polling ==
    /\ [](ENABLED MonitorRound)
    /\ [][ /\ last'.op = "monitor_loop" =>
                /\ \A s \in Switches :
                      /\ Cardinality(RequestsTo(sent', s, "port_stats")) =
                            (IF s \in datapaths THEN 1 ELSE 0)
                      /\ Cardinality(RequestsTo(sent', s, "flow_stats")) =
                            (IF s \in datapaths THEN 1 ELSE 0)
                /\ Len(sent') = 2 * Cardinality(datapaths)
                /\ port_stats' = port_stats /\ port_stats_prev' = port_stats_prev
                /\ flow_stats' = flow_stats
           /\ last'.op = "port_stats_reply" =>
                \A s \in Switches :
                    <<s, "port_stats">> \in pending'
                        => SamplesOf(port_stats', port_stats_prev', s) =
                              SamplesOf(port_stats, port_stats_prev, s)
      ]_vars

\* A round has just been sent to both switches; s1 has never answered a
\* port-counter request and has no sample, s2 has answered two rounds and
\* has a current and a previous sample.
C26_Witness ==
    /\ last.op = "monitor_loop"
    /\ Len(sent) = 4
    /\ <<1, "port_stats">> \in pending
    /\ 1 \notin DOMAIN port_stats
    /\ 2 \in DOMAIN port_stats /\ 2 \in DOMAIN port_stats[2]
    /\ 2 \in DOMAIN port_stats_prev /\ 2 \in DOMAIN port_stats_prev[2]

-----------------------------------------------------------------------------
\* The switch at the other end of the cable plugged into port p of switch u
Peers(u, p) ==
    {l.dst.dpid : l \in {x \in wiring.links : x.src = Port(u, p)}} \cup
    {l.src.dpid : l \in {x \in wiring.links : x.dst = Port(u, p)}}

\* A packet for the host of d that is at switch u, having been at the
\* switches of seen, is forwarded by the installed rules to a switch it has
\* not been at, and so on until d outputs it on its host port
RECURSIVE Delivers(_, _, _)
Delivers(u, d, seen) ==
    LET outs == {r.out : r \in DestRules(flows[u], d)}
    IN  /\ \E p \in outs : outs = {p}
        /\ \A p \in outs :
              IF u = d THEN p = host_port[d]
              ELSE /\ \E v \in Peers(u, p) : Peers(u, p) = {v}
                   /\ \A v \in Peers(u, p) : v \notin seen /\ Delivers(v, d, seen \cup {v})

(* C27: after a completed cycle with every switch of the graph registered,  *)
(* the installed rules carry a packet from any switch u to the host of any  *)
(* switch d of u's component without visiting a switch twice, in both       *)
(* modes and for every way the library breaks ties.                         *)
C27_LoopFreeDelivery ==
    (last.done /\ G.nodes \subseteq datapaths) =>
        \A u \in G.nodes, d \in G.nodes \cap HostSwitches :
            Connected(G, u, d) => Delivers(u, d, {u})

\* Inverse-bandwidth mode on s8, s10, s11, where the direct link s8-s10 ties
\* with the detour over s11: s8 forwards to s10 over s11 and the packet arrives.
C27_Witness ==
    /\ last.done /\ G.nodes = {8, 10, 11} /\ G.nodes \subseteq datapaths
    /\ mode = "distrak"
    /\ \A r \in DestRules(flows[8], 10) : Peers(8, r.out) = {11}
    /\ Delivers(8, 10, {8})

-----------------------------------------------------------------------------
(* C28: for every edge {u,v} of the graph the port map has an entry for     *)
(* (u,v) and for (v,u), each a port of the link-port set of its switch; so  *)
(* the next switch of every path the library gives the installer has a      *)
(* port in the map.                                                         *)
C28_BothDirections ==
    /\ \A k \in DOMAIN G.edges :
          \A e \in {<<k[1], k[2]>>, <<k[2], k[1]>>} :
              /\ e \in DOMAIN adj
              /\ e[1] \in DOMAIN sw_link_ports
              /\ adj[e] \in sw_link_ports[e[1]]
    /\ \A q \in DOMAIN spChoice[mode].path :
          <<q[1], spChoice[mode].path[q][2]>> \in DOMAIN adj

\* The provider reports the cable s1-s2 in one direction only; the map has
\* both directions and s2 has a rule towards s1 through it.
C28_Witness ==
    /\ last.done
    /\ Link(1, 2, 2, 2) \in topoLinks
    /\ \A l \in topoLinks : ~(l.src.dpid = 2 /\ l.dst.dpid = 1)
    /\ <<1, 2>> \in DOMAIN adj /\ <<2, 1>> \in DOMAIN adj
    /\ 2 \in datapaths
    /\ \E r \in DestRules(flows[2], 1) : r.out = adj[<<2, 1>>]

-----------------------------------------------------------------------------
\* The messages the step sends to switch s, in order
SentTo(msgs, s) == SelectSeq(msgs, LAMBDA x : x.to = s)

(* C29: every message of a completed rebuild cycle goes to a switch of the  *)
(* datapath registry.  A switch of the graph that is not registered gets no *)
(* message and its table stays as it was; a registered switch that is not   *)
(* in the graph gets the delete-all and the two base rules and nothing      *)
(* else, and is left with the two base rules.                               *)
C29_OnlyRegisteredDatapaths ==
    [][ (TriggerFires /\ last'.done) =>
          /\ \A i \in 1..Len(sent') : sent'[i].to \in datapaths'
          /\ \A s \in G'.nodes \ datapaths' :
                SentTo(sent', s) = <<>> /\ flows'[s] = flows[s]
          /\ \A s \in datapaths' \ G'.nodes :
                /\ SentTo(sent', s) = <<FlowDeleteAll(s), FlowAdd(s, LldpRule), FlowAdd(s, MissRule)>>
                /\ flows'[s] = BaseRules
      ]_vars

\* s1 is in the graph and no longer registered: the cycle sent it nothing
\* and its table still has what an earlier cycle installed, while s2 was
\* given rules for the host of s1.
C29_Witness ==
    /\ last.done
    /\ 1 \in G.nodes \ datapaths
    /\ SentTo(sent, 1) = <<>>
    /\ AllDestRules(flows[1]) # {}
    /\ 2 \in datapaths /\ SentFor(2, 1) # {}

-----------------------------------------------------------------------------
(* C30: the step in which a datapath dies removes that switch from the      *)
(* registry and does nothing else: no message is sent, no cycle runs, and   *)
(* the graph, the port map, the link-port sets, the host ports and every    *)
(* flow table are as before, so the switch is still a node of the graph.    *)
C30_DepartureIsNoTrigger ==
    [][ (last'.op = "state_change" /\ datapaths' # datapaths /\ datapaths' \subseteq datapaths) =>
          /\ \E s \in datapaths : datapaths' = datapaths \ {s}
          /\ sent' = <<>> /\ ~last'.done
          /\ G' = G /\ adj' = adj /\ sw_link_ports' = sw_link_ports /\ host_port' = host_port
          /\ flows' = flows
          /\ mode' = mode
      ]_vars

\* The datapath of s1 has just died in inverse-bandwidth mode: s1 is still a
\* node of the graph and s2 still forwards to the host of s5 through s1.
C30_Witness ==
    /\ last.op = "state_change"
    /\ sent = <<>>
    /\ 1 \notin datapaths
    /\ 1 \in G.nodes
    /\ 1 \in topoSwitches
    /\ DestRules(flows[2], 5) # {}
    /\ \A r \in DestRules(flows[2], 5) : Peers(2, r.out) = {1}

====
